---- MODULE Spec2Model ----
(***************************************************************************)
(* Two components of harmonic-composer as state machines.                  *)
(*                                                                         *)
(* The command interaction engine (Runner, Context, mapHooks, mapStatus in *)
(* src/src/FileType.ts), specification Spec.  A command procedure is an    *)
(* async function: it runs synchronously up to its next cx.listen(...),    *)
(* which stores a fresh listener in the command's state and leaves a       *)
(* pending promise.  A handler that returns PROCEED or CONSUME resolves     *)
(* that promise; the continuation of the procedure is a microtask, which   *)
(* the host runs after the dispatching event handler has returned and      *)
(* before the next event is delivered.                                     *)
(*                                                                         *)
(* The event scheduler (Scheduler in src/src/Scheduler.ts), specification  *)
(* SchedulerSpec: a queue of timestamped callbacks drained by the ticks of *)
(* an audio clock.                                                         *)
(*                                                                         *)
(* Three smaller units have a specification each: Context.when (WhenSpec), *)
(* the channel pool of MPEInstrument in src/src/Instrument.ts (MpeSpec),   *)
(* and Player in src/src/NotesView.ts on top of the scheduler (PlayerSpec).*)
(***************************************************************************)
EXTENDS Integers, Sequences, FiniteSets, TLC

VARIABLES
    commands,    \* Runner.commands: the registry, in registration order
    microtasks,  \* the host's microtask queue: pending promise continuations
    log,         \* history: what the last dispatch call did, in order
    snap,        \* history: action priorities read by the last resolveActions
    err,         \* the error the last dispatch call threw, "none" if it returned
    last,        \* history: the hook and p.keyCode of the last dispatch call
    op,          \* history: the operation that produced this state
    now,         \* Tone.now(): the audio clock's current time
    clockState,  \* Scheduler.clock: the Tone.Clock is "started" or "stopped"
    heap,        \* Scheduler.heap: the pending events
    time,        \* Scheduler.time
    willStop,    \* Scheduler.willStop: the armed cleanup, 0 for null
    issued,      \* the number of callbacks handed to the scheduler so far
    ticks,       \* history: the number of tick calls so far
    trace,       \* history: pushes, callback invocations, stop calls, in order
    sop,         \* history: the scheduler operation that produced this state
    wListener,   \* the listener passed to Context.when
    wHolds,      \* the carried values on which the predicate passed to when holds
    wAnswer,     \* history: the last call of a handler of the wrapped listener
    midiOutput,        \* MPEInstrument.midiOutput is not null
    numChannels,       \* MPEInstrument.numChannels
    availableChannels, \* MPEInstrument.availableChannels
    channelMap,        \* MPEInstrument.channelMap: frequency -> channel
    mop,               \* history: the instrument call that produced this state
    player       \* the Player under construction or playing, its notes and times

engineVars == <<commands, microtasks, log, snap, err, last, op>>

schedVars == <<now, clockState, heap, time, willStop, issued, ticks, trace, sop>>

whenVars == <<wListener, wHolds, wAnswer>>

mpeVars == <<midiOutput, numChannels, availableChannels, channelMap, mop>>

playerVars == <<player>>

unitVars == <<whenVars, mpeVars, playerVars>>

vars == <<engineVars, schedVars, unitVars>>

(***************************************************************************)
(* Bounds                                                                  *)
(***************************************************************************)
MaxCommands == 2

\* the audio clock is followed up to this time, in units of 0.1 s
MaxNow == 2
\* the callbacks (scheduled actions and cleanups) handed to one scheduler
MaxIds == 2
\* the tick calls made on one scheduler
MaxTicks == 2

(***************************************************************************)
(* Hooks, statuses, listeners                                              *)
(***************************************************************************)
HookNames == {"keyDown", "keyUp", "mouseDown", "mouseUp", "draw", "action"}

Controls == {"REPEAT", "CANCEL", "PROCEED", "CONSUME"}

Repeat == [control |-> "REPEAT", value |-> "none"]

\* the key codes the host may report in p.keyCode: g, esc
KeyG == 71
KeyEsc == 27
KeyCodes == {KeyG, KeyEsc}

\* maxPrio starts at -Infinity: below every priority a listener declares
MinusInfinity == -1
\* the priority recorded for a listener without an action handler
NoAction == MinusInfinity - 1

\* Context.key(p, keyCode): a keyDown handler for one key code
Key(keyCode) == [hooks |-> [keyDown |-> [kind |-> "key", keyCode |-> keyCode]],
                 priority |-> NoAction]

\* NotesView.listenSelectNote: a mouseDown handler that consumes when the
\* pointer is over a note
ListenSelectNote == [hooks |-> [mouseDown |-> [kind |-> "selectNote", keyCode |-> 0]],
                     priority |-> NoAction]

\* the listener that Context.action(code, priority) passes to listen
ActionListener(priority) ==
    [hooks |-> [action |-> [kind |-> "code", keyCode |-> 0]], priority |-> priority]

\* Context.action(code): priority defaults to 0
DefaultPriority == 0
Action == ActionListener(DefaultPriority)

\* a handler supplied by the caller whose result depends on state outside
\* the engine: the environment chooses what it returns
Env == [kind |-> "env", keyCode |-> 0]

EmptyListener == [hooks |-> <<>>, priority |-> NoAction]

(***************************************************************************)
(* Procedures: the listeners a procedure passes to cx.listen, in order.    *)
(* The procedure completes after the last one has resumed it.              *)
(***************************************************************************)
Procs == {"simpleKey", "selectMove", "probe"}

\* the listen calls of one command that may wait for their promises at a time
MaxWaits == 2

\* 'GCD (g)' of NotesView.registerCommands, by simpleKey
SimpleKey == << Key(KeyG), Action >>

\* 'Select and move notes' of NotesView.registerCommands
SelectMove ==
    << ListenSelectNote,
       Action,
       [hooks |-> [action |-> [kind |-> "move", keyCode |-> 0],
                   mouseUp |-> [kind |-> "consume", keyCode |-> 0]],
        priority |-> 0] >>

\* a procedure all of whose handlers are supplied by the caller
Probe ==
    << [hooks |-> [keyDown |-> Env], priority |-> NoAction],
       [hooks |-> [draw |-> Env, action |-> Env], priority |-> 1],
       [hooks |-> [mouseUp |-> Env], priority |-> NoAction] >>

\* the category a re-entrant handler dispatches before it returns
ReenterHook == "keyUp"

\* a procedure whose keyDown handler calls runner.dispatch(ReenterHook)
\* before it returns the caller's status, and whose handler for that
\* category cancels
Reentrant ==
    << [hooks |-> [keyDown |-> [kind |-> "reenter", keyCode |-> 0],
                   keyUp |-> [kind |-> "cancel", keyCode |-> 0]],
        priority |-> NoAction],
       [hooks |-> [mouseUp |-> [kind |-> "consume", keyCode |-> 0]],
        priority |-> NoAction] >>

\* 'Create new note' of NotesView.registerCommands
CreateNote ==
    << [hooks |-> [mouseDown |-> [kind |-> "unlessShift", keyCode |-> 0]],
        priority |-> NoAction],
       Action,
       [hooks |-> [draw |-> [kind |-> "drawNote", keyCode |-> 0],
                   mouseUp |-> [kind |-> "addNote", keyCode |-> 0]],
        priority |-> NoAction] >>

\* a procedure that throws when its listen call has resumed it
Thrower == << Key(KeyG) >>

\* a procedure that hands its second listen call a promise of the listener,
\* still pending at the call: listen(hooks) with hooks instanceof Promise
Deferred ==
    << [hooks |-> [keyDown |-> Env], priority |-> NoAction],
       [hooks |-> [mouseUp |-> Env], priority |-> NoAction] >>

\* a procedure that hands its listen call a promise that has already been
\* fulfilled: listen(Promise.resolve(listener))
Prompt == << [hooks |-> [keyDown |-> Env], priority |-> NoAction] >>

\* what the listen call of step pc is given: the listener ("none"), or a
\* promise of it, "pending" or "settled" when listen is called
Promised(p, pc) ==
    CASE p = "deferred" /\ pc = 2 -> "pending"
      [] p = "prompt" /\ pc = 1 -> "settled"
      [] OTHER -> "none"

\* the procedure throws in the code that follows the listen call of step pc
Throws(p, pc) == p = "thrower" /\ pc = Len(Thrower)

ProcBody(p) ==
    CASE p = "simpleKey" -> SimpleKey
      [] p = "thrower" -> Thrower
      [] p = "createNote" -> CreateNote
      [] p = "selectMove" -> SelectMove
      [] p = "probe" -> Probe
      [] p = "reentrant" -> Reentrant
      [] p = "deferred" -> Deferred
      [] p = "prompt" -> Prompt

\* command.state before the first listen: {}
EmptyState == [pc |-> 0, resolved |-> FALSE, ran |-> FALSE, val |-> "none",
               stale |-> FALSE]

\* the state a listen call installs: the listener of step pc, its promise
\* pending; val is the value the procedure was resumed with before this call.
\* stale is history: the listen call was made by an activation that an
\* initState has abandoned since
ListenState(pc, val) ==
    [pc |-> pc, resolved |-> FALSE, ran |-> FALSE, val |-> val, stale |-> FALSE]

\* the state installed by the listen call of a continuation: it belongs to
\* the activation the continuation belongs to
Installed(pc, val, stale) == [ListenState(pc, val) EXCEPT !.stale = stale]

\* a command as register creates it: state {}, and no listen call of its
\* procedure waiting for the promise it was given
NewCommand(p) ==
    [proc |-> p, state |-> EmptyState, waits |-> <<>>, listener |-> EmptyListener]

\* mapHooks(hookMap, listener): a new object with one entry for each of the
\* six categories present in the listener, the action entry with its priority
MapHooks(listener) ==
    [hooks |-> [n \in {m \in {"keyDown", "keyUp", "mouseDown", "mouseUp", "draw", "action"} :
                          m \in DOMAIN listener.hooks} |-> listener.hooks[n]],
     priority |-> IF "action" \in DOMAIN listener.hooks THEN listener.priority
                  ELSE NoAction]

\* a variant of the assignment that writes the entries of the new object
\* into the object command.state holds, keeping the entries it has
InstallMerged(c, pc, val, stale) ==
    LET new == MapHooks(ProcBody(c.proc)[pc])
        old == c.listener
    IN  [c EXCEPT !.state = Installed(pc, val, stale),
                  !.listener =
                      [hooks |-> [n \in DOMAIN old.hooks \cup DOMAIN new.hooks |->
                                     IF n \in DOMAIN new.hooks THEN new.hooks[n]
                                     ELSE old.hooks[n]],
                       priority |-> IF "action" \in DOMAIN new.hooks THEN new.priority
                                    ELSE old.priority]]

\* this.command.state = mapHooks(hookMap, listener), by the listen call of
\* step pc: one assignment of a new object
Install(c, pc, val, stale) ==
    [c EXCEPT !.state = Installed(pc, val, stale),
              !.listener = MapHooks(ProcBody(c.proc)[pc])]

\* a variant of listen that installs the listener at once, whatever it is
\* given
ListenAtOnce(c, pc, val, stale) == Install(c, pc, val, stale)

\* cx.listen(hooks), step pc of the procedure of command c, up to its first
\* suspension: given a listener it replaces command.state; given a promise
\* it waits for it (listener = await hooks) and command.state stays
Listen(c, pc, val, stale) ==
    IF Promised(c.proc, pc) = "none"
    THEN Install(c, pc, val, stale)
    ELSE [c EXCEPT !.waits = Append(@, [pc |-> pc, val |-> val, stale |-> stale])]

\* the listener held in a command's state: the object that the last
\* assignment to this.command.state stored
Listener(c) == c.listener

HasHook(c, hook) == hook \in DOMAIN Listener(c).hooks

(***************************************************************************)
(* Context.when                                                            *)
(***************************************************************************)
MaxValue == 2

\* the values a status can carry
Values == 1..MaxValue

\* Status<T>: REPEAT and CANCEL have no value property
Statuses ==
    {[control |-> "REPEAT"], [control |-> "CANCEL"]}
        \cup {[control |-> c, value |-> v] : c \in {"PROCEED", "CONSUME"}, v \in Values}

\* the handler when builds around hook, called while hook() returns status
\* and p holds on the values in holds; first a variant that lets a status
\* without a value through
WhenHandlerPasses(holds, status) ==
    IF "value" \in DOMAIN status /\ status.value \notin holds
    THEN [control |-> "REPEAT"]
    ELSE status

WhenHandler(holds, status) ==
    IF "value" \in DOMAIN status /\ status.value \in holds
    THEN status
    ELSE [control |-> "REPEAT"]

\* when(p, listener): mapHooks over the listener's handlers
When(holds, listener) ==
    LET m == MapHooks(listener)
    IN  [hooks |-> [n \in DOMAIN m.hooks |->
                       [kind |-> "when", holds |-> holds, hook |-> m.hooks[n]]],
         priority |-> m.priority]

\* the listeners given to when: any set of categories, caller's handlers
Listeners ==
    {[hooks |-> [n \in cats |-> Env],
      priority |-> IF "action" \in cats THEN prio ELSE NoAction] :
        cats \in SUBSET HookNames, prio \in {DefaultPriority, DefaultPriority + 1}}

Unasked == [hook |-> "none", status |-> [control |-> "none"],
            answer |-> [control |-> "none"]]

WhenIdle ==
    /\ wListener = EmptyListener
    /\ wHolds = {}
    /\ wAnswer = Unasked

(***************************************************************************)
(* Handlers.  An input is what the host state is when dispatch is called:  *)
(* the hook, p.keyCode, whether the pointer is over a note, and what the   *)
(* caller-supplied handlers return (ret[i] by the hook handler of command  *)
(* i, actRet by an action handler).                                        *)
(***************************************************************************)

\* the keyDown handler of Context.key(p, keyCode), a variant that takes
\* every key first
KeyDownAnyKey(keyCode, in) == [control |-> "CONSUME", value |-> "null"]

KeyDown(keyCode, in) ==
    IF in.keyCode = keyCode
    THEN [control |-> "CONSUME", value |-> "null"]
    ELSE Repeat

\* what the listener's own handler cb() returns
Cb(h, hook, i, in) ==
    CASE h.kind = "key" -> KeyDown(h.keyCode, in)
      [] h.kind = "selectNote" ->
            IF in.over
            THEN [control |-> "CONSUME", value |-> "note"]
            ELSE Repeat
      [] h.kind = "code" -> [control |-> "PROCEED", value |-> "x"]
      [] h.kind = "move" -> Repeat
      [] h.kind = "consume" -> [control |-> "CONSUME", value |-> "undefined"]
      [] h.kind = "cancel" -> [control |-> "CANCEL", value |-> "none"]
      [] h.kind = "unlessShift" ->
            LET st == WhenHandler(IF in.shift THEN {} ELSE {"null"},
                                  [control |-> "CONSUME", value |-> "null"])
            IN  [control |-> st.control,
                 value |-> IF "value" \in DOMAIN st THEN st.value ELSE "none"]
      [] h.kind = "drawNote" -> Repeat
      [] h.kind = "addNote" -> [control |-> "CONSUME", value |-> "undefined"]
      [] h.kind \in {"env", "reenter"} ->
            LET c == IF hook = "action" THEN in.actRet ELSE in.ret[i]
            IN  [control |-> c,
                 value |-> IF c \in {"PROCEED", "CONSUME"} THEN hook ELSE "none"]

\* the handlers that run caller code with an effect on the application
HasEffect(h) == h.kind \in {"code", "move", "drawNote", "addNote"}

\* return new Promise(...) in the async function listen: the promise that
\* listen returns adopts the promise made in the executor, by a job that is
\* queued when the listen call returns
AdoptJob(i, pc) ==
    [type |-> "adopt", cmd |-> i, pc |-> pc, val |-> "none", stale |-> FALSE,
     ticks |-> 0]

\* the adoption of the current listen call of command i, if it is still
\* queued: the listen call was made in the task that is running (0: none)
LastAdopt(q, i) ==
    LET a == {k \in DOMAIN q : q[k].type = "adopt" /\ q[k].cmd = i}
    IN  IF a = {} THEN 0 ELSE CHOOSE k \in a : \A m \in a : m <= k

\* the continuation of await cx.listen(...) becomes owed.  After the
\* adoption, resolve(x) queues the job that resolves the promise listen
\* returned, which queues the continuation: one job runs before it.  Before
\* the adoption (entry p of the queue) the adoption job queues that job:
\* two jobs run before the continuation, the first at the place of p
Owe(q, p, job) ==
    IF p = 0
    THEN Append(q, [job EXCEPT !.ticks = 1])
    ELSE [q EXCEPT ![p] = [job EXCEPT !.ticks = 2]]

\* an adoption that finds its promise pending does nothing: no handler runs
\* before the host has emptied the queue
Strip(q) == SelectSeq(q, LAMBDA j : j.type # "adopt")

\* the jobs of the promise machinery run in their turn until a continuation
\* of the program is the oldest job: a job with ticks left goes to the end
\* of the queue with one tick less
RECURSIVE Turn(_)
Turn(q) ==
    IF q = <<>> \/ Head(q).ticks = 0 THEN q
    ELSE Turn(Append(Tail(q), [Head(q) EXCEPT !.ticks = @ - 1]))

\* job is owed in q, whatever the number of jobs that run before it
Queued(q, job) == \E m \in DOMAIN q : [q[m] EXCEPT !.ticks = 0] = job

\* resolve(x) of the promise of the command's current listen call: the
\* first call makes the continuation owed, later calls do nothing.  The
\* continuation is that of the activation which made the listen call
Resolve(eng, i, x) ==
    IF eng.commands[i].state.resolved
    THEN eng
    ELSE [eng EXCEPT !.commands[i].state.resolved = TRUE,
                     !.microtasks = Owe(@, LastAdopt(@, i),
                                        [type |-> "resume", cmd |-> i,
                                         pc |-> eng.commands[i].state.pc,
                                         val |-> x,
                                         stale |-> eng.commands[i].state.stale,
                                         ticks |-> 0])]

\* mapStatus applied by hookMap: on CONSUME and PROCEED resolve the promise
\* and carry the command's state as the value; first a variant that applies
\* f to every status
MapStatusAlways(eng, i, status) ==
    LET e == Resolve(eng, i, status.value)
    IN  [eng |-> e, status |-> [control |-> status.control, value |-> e.commands[i].state]]

MapStatus(eng, i, status) ==
    IF status.control = "CONSUME" \/ status.control = "PROCEED"
    THEN LET e == Resolve(eng, i, status.value)
         IN  [eng |-> e,
              status |-> [control |-> status.control, value |-> e.commands[i].state]]
    ELSE [eng |-> eng, status |-> status]

RECURSIVE DispatchFrom(_, _, _)

\* a handler that calls runner.dispatch(ReenterHook) inside cb(): the nested
\* dispatch runs to its end, then mapStatus is applied with the resolve of
\* the listen call the handler belongs to (own) and reads this.command.state
\* as it is by then.  An exception of the nested dispatch leaves cb().
Reentered(e1, i, own, st, in) ==
    LET n        == Len(e1.log)
        e2       == DispatchFrom(e1, 1, [in EXCEPT !.hook = ReenterHook])
        replaced == \E r \in n + 1..Len(e2.log) :
                        e2.log[r].ev = "restart" /\ e2.log[r].cmd = i
        settled  == \/ own.resolved
                    \/ \E k \in n + 1..Len(e2.log) :
                          /\ e2.log[k].cmd = i
                          /\ e2.log[k].control \in {"PROCEED", "CONSUME"}
                          /\ ~ \E r \in n + 1..k :
                                 e2.log[r].ev = "restart" /\ e2.log[r].cmd = i
        e3       == [e2 EXCEPT
                       !.log = Append(@, [ev |-> "return", cmd |-> i, pc |-> own.pc,
                                          control |-> st.control, value |-> st.value,
                                          effect |-> FALSE, again |-> FALSE,
                                          pending |-> ~settled])]
    IN  IF e2.err # "none"
        THEN [eng |-> e2, status |-> [control |-> "THROWN", value |-> "none"]]
        ELSE IF ~replaced THEN MapStatus(e3, i, st)
        ELSE IF st.control = "CONSUME" \/ st.control = "PROCEED"
        THEN [eng |-> IF settled THEN e3
                      ELSE [e3 EXCEPT
                              !.microtasks = Owe(@, LastAdopt(e1.microtasks, i),
                                                 [type |-> "resume", cmd |-> i,
                                                  pc |-> own.pc, val |-> st.value,
                                                  stale |-> TRUE, ticks |-> 0])],
              status |-> [control |-> st.control, value |-> e3.commands[i].state]]
        ELSE [eng |-> e3, status |-> st]

\* c.state[hook]() : the wrapped handler of command i's current listener
Invoke(eng, i, hook, in) ==
    LET c  == eng.commands[i]
        h  == Listener(c).hooks[hook]
        st == Cb(h, hook, i, in)
        e1 == [eng EXCEPT
                 !.commands[i].state.ran = @ \/ HasEffect(h),
                 !.log = Append(@, [ev |-> IF hook = "action" THEN "action" ELSE "hook",
                                    cmd |-> i, pc |-> c.state.pc,
                                    control |-> st.control, value |-> st.value,
                                    effect |-> HasEffect(h), again |-> c.state.ran,
                                    pending |-> ~c.state.resolved])]
    IN  IF h.kind = "reenter"
        THEN Reentered(e1, i, c.state, st, in)
        ELSE MapStatus(e1, i, st)

(***************************************************************************)
(* Runner                                                                  *)
(***************************************************************************)

\* command.command(new Context(command, this)): the procedure runs up to its
\* first listen call, which replaces command.state when it is given a
\* listener and awaits when it is given a promise
Started(c) == Listen(c, 1, "none", FALSE)

\* history: a continuation still queued for command i now belongs to an
\* activation that has been abandoned
Abandon(q, i) ==
    [k \in 1..Len(q) |->
        IF q[k].cmd = i /\ q[k].type \in {"resume", "install"}
        THEN [q[k] EXCEPT !.stale = TRUE]
        ELSE q[k]]

\* history: so does a listen call of command c that waits for its promise
AbandonWaits(c) == [c EXCEPT !.waits = [k \in 1..Len(@) |-> [@[k] EXCEPT !.stale = TRUE]]]

\* the continuation of listener = await hooks, queued when the promise is
\* fulfilled
InstallJob(i, w) ==
    [type |-> "install", cmd |-> i, pc |-> w.pc, val |-> w.val, stale |-> w.stale,
     ticks |-> 0]

\* await of a promise that is already fulfilled queues its continuation at
\* once
Flush(eng, i) ==
    LET c     == eng.commands[i]
        ready == SelectSeq(c.waits, LAMBDA w : Promised(c.proc, w.pc) = "settled")
    IN  [eng EXCEPT
           !.commands[i].waits =
               SelectSeq(c.waits, LAMBDA w : Promised(c.proc, w.pc) # "settled"),
           !.microtasks = @ \o [k \in 1..Len(ready) |-> InstallJob(i, ready[k])]]

\* the listen call that installs a listener returns a promise to adopt
Adopting(eng, i) ==
    IF Promised(eng.commands[i].proc, 1) = "none"
    THEN [eng EXCEPT !.microtasks = Append(@, AdoptJob(i, 1))]
    ELSE eng

InitState(eng, i) ==
    Flush(Adopting([eng EXCEPT !.commands[i] = Started(AbandonWaits(@)),
                               !.microtasks = Abandon(@, i)], i), i)

\* a variant of the restart that registers the command anew, at the end
RestartAtEnd(eng, i) ==
    LET e  == InitState(eng, i)
        cs == e.commands
        n  == Len(cs)
    IN  [e EXCEPT !.commands = [k \in 1..n |-> IF k < i THEN cs[k]
                                               ELSE IF k < n THEN cs[k + 1]
                                               ELSE cs[i]],
                  !.log = Append(@, [ev |-> "restart", cmd |-> i,
                                     pc |-> eng.commands[i].state.pc,
                                     control |-> "none", value |-> "none",
                                     effect |-> FALSE, again |-> FALSE,
                                     pending |-> FALSE])]

\* initState called from dispatch or resolveActions, recorded in the log
Restart(eng, i) ==
    LET e == InitState(eng, i)
    IN  [e EXCEPT !.log = Append(@, [ev |-> "restart", cmd |-> i,
                                     pc |-> eng.commands[i].state.pc,
                                     control |-> "none", value |-> "none",
                                     effect |-> FALSE, again |-> FALSE,
                                     pending |-> FALSE])]

RECURSIVE RestartAll(_, _, _)
RestartAll(eng, cs, from) ==
    IF from > Len(cs) THEN eng
    ELSE RestartAll(Restart(eng, cs[from]), cs, from + 1)

Priority(c) == IF HasHook(c, "action") THEN Listener(c).priority ELSE NoAction

\* a higher priority arrives: the commands collected so far are restarted;
\* first a variant that forgets them
DisplaceNone(eng, maxActions) == eng

Displace(eng, maxActions) == RestartAll(eng, maxActions, 1)

\* a variant of the loop that treats a command without an action handler
\* as one of lowest priority, and restarts it
RECURSIVE ContendAll(_, _, _, _)
ContendAll(eng, i, maxPrio, maxActions) ==
    IF i > Len(eng.commands) THEN [eng |-> eng, maxActions |-> maxActions]
    ELSE LET c == eng.commands[i]
         IN  IF ~HasHook(c, "action")
             THEN ContendAll(Restart(eng, i), i + 1, maxPrio, maxActions)
             ELSE IF Listener(c).priority > maxPrio
             THEN ContendAll(Displace(eng, maxActions), i + 1,
                             Listener(c).priority, <<i>>)
             ELSE IF Listener(c).priority = maxPrio
             THEN ContendAll(eng, i + 1, maxPrio, Append(maxActions, i))
             ELSE ContendAll(Restart(eng, i), i + 1, maxPrio, maxActions)

\* the loop of resolveActions over this.commands: r.eng and r.maxActions
RECURSIVE Contend(_, _, _, _)
Contend(eng, i, maxPrio, maxActions) ==
    IF i > Len(eng.commands) THEN [eng |-> eng, maxActions |-> maxActions]
    ELSE LET c == eng.commands[i]
         IN  IF ~HasHook(c, "action")
             THEN Contend(eng, i + 1, maxPrio, maxActions)
             ELSE IF Listener(c).priority > maxPrio
             THEN Contend(Displace(eng, maxActions), i + 1,
                          Listener(c).priority, <<i>>)
             ELSE IF Listener(c).priority = maxPrio
             THEN Contend(eng, i + 1, maxPrio, Append(maxActions, i))
             ELSE Contend(Restart(eng, i), i + 1, maxPrio, maxActions)

\* the end of resolveActions: the chosen command's action handler
\* two variants of the switch on the winner's status: one that accepts
\* CONSUME as it accepts PROCEED, one that starts the command over on PROCEED
WinnerLenient(eng, w, in) ==
    LET r == Invoke(eng, w, "action", in)
    IN  CASE r.status.control = "REPEAT" -> r.eng
          [] r.status.control = "CANCEL" -> Restart(r.eng, w)
          [] OTHER -> r.eng

WinnerStartsOver(eng, w, in) ==
    LET r == Invoke(eng, w, "action", in)
    IN  CASE r.status.control = "REPEAT" -> r.eng
          [] r.status.control = "CANCEL" -> Restart(r.eng, w)
          [] r.status.control = "PROCEED" -> Restart(r.eng, w)
          [] OTHER -> [r.eng EXCEPT !.err = "Actions may not consume"]

\* const status = maxActions[0].state.action.value() and the switch on it
Winner(eng, w, in) ==
    LET r == Invoke(eng, w, "action", in)
    IN  CASE r.status.control = "REPEAT" -> r.eng
          [] r.status.control = "CANCEL" -> Restart(r.eng, w)
          [] r.status.control = "PROCEED" ->
                IF r.eng.commands[w].state # r.status.value
                THEN [r.eng EXCEPT !.err = "Invariant error"]
                ELSE r.eng
          [] r.status.control = "CONSUME" ->
                [r.eng EXCEPT !.err = "Actions may not consume"]
          [] OTHER -> r.eng

\* two variants of the choice among tied commands: every tied command's
\* handler is invoked; the last tied command is chosen
RECURSIVE InvokeAll(_, _, _)
InvokeAll(eng, maxActions, in) ==
    IF Len(maxActions) = 0 THEN eng
    ELSE InvokeAll(Winner(eng, Head(maxActions), in), Tail(maxActions), in)

ChooseLast(eng, maxActions, in) ==
    LET n == Len(maxActions)
    IN  Winner(RestartAll(eng, SubSeq(maxActions, 1, n - 1), 1), maxActions[n], in)

\* maxActions.length >= 1: all but the first are restarted and the first
\* one's action handler is invoked
Choose(eng, maxActions, in) ==
    IF Len(maxActions) >= 2
    THEN Winner(RestartAll(eng, maxActions, 2), maxActions[1], in)
    ELSE Winner(eng, maxActions[1], in)

ResolveActions(eng, in) ==
    LET e0 == [eng EXCEPT
                 !.log = Append(@, [ev |-> "resolve", cmd |-> 0, pc |-> 0,
                                    control |-> "none", value |-> "none",
                                    effect |-> FALSE, again |-> FALSE,
                                    pending |-> FALSE]),
                 !.snap = [k \in 1..Len(eng.commands) |-> Priority(eng.commands[k])]]
        r  == Contend(e0, 1, MinusInfinity, <<>>)
    IN  IF Len(r.maxActions) = 0 THEN r.eng
        ELSE Choose(r.eng, r.maxActions, in)

\* CONSUME: return, stop processing this event; first two variants, one
\* going on to the next command and one resolving the actions all the same
KeepProcessing(eng, i, in) == DispatchFrom(eng, i + 1, in)

ResolveAnyway(eng, i, in) == ResolveActions(eng, in)

StopProcessing(eng, i, in) == eng

\* after the loop: this.resolveActions(); first a variant that leaves it out
SkipResolve(eng, in) == eng

AfterLoop(eng, in) == ResolveActions(eng, in)

\* REPEAT: break, no change; first a variant that starts the command over
RepeatRestarts(eng, i, in) == DispatchFrom(Restart(eng, i), i + 1, in)

RepeatCase(eng, i, in) == DispatchFrom(eng, i + 1, in)

\* PROCEED with the invariant intact: break, no change; first a variant
\* that ends the dispatch as CONSUME does
ProceedStops(eng, i, in) == eng

ProceedCase(eng, i, in) == DispatchFrom(eng, i + 1, in)

\* the loop of dispatch from command i on, then resolveActions
DispatchFrom(eng, i, in) ==
    IF i > Len(eng.commands) THEN AfterLoop(eng, in)
    ELSE IF ~HasHook(eng.commands[i], in.hook) THEN DispatchFrom(eng, i + 1, in)
    ELSE IF in.hook = "action"
    THEN [eng EXCEPT !.err = "Cannot call dispatch on actions"]
    ELSE LET r == Invoke(eng, i, in.hook, in)
         IN  CASE r.status.control = "REPEAT" -> RepeatCase(r.eng, i, in)
               [] r.status.control = "CANCEL" ->
                     DispatchFrom(Restart(r.eng, i), i + 1, in)
               [] r.status.control = "PROCEED" ->
                     IF r.eng.commands[i].state # r.status.value
                     THEN [r.eng EXCEPT !.err = "Invariant error"]
                     ELSE ProceedCase(r.eng, i, in)
               [] r.status.control = "CONSUME" ->
                     IF r.eng.commands[i].state # r.status.value
                     THEN [r.eng EXCEPT !.err = "Invariant error"]
                     ELSE StopProcessing(r.eng, i, in)
               [] OTHER -> r.eng

Engine == [commands |-> commands, microtasks |-> microtasks,
           log |-> <<>>, snap |-> <<>>, err |-> "none"]

\* what the hook handler of command i may return for this hook: a
\* caller-supplied handler any status, anything else is decided by Cb
RetChoices(i, hook) ==
    IF /\ hook # "action"
       /\ HasHook(commands[i], hook)
       /\ Listener(commands[i]).hooks[hook].kind \in {"env", "reenter"}
    THEN Controls
    ELSE {"REPEAT"}

RECURSIVE RetSeqs(_, _)
RetSeqs(n, hook) ==
    IF n = 0 THEN {<<>>}
    ELSE {Append(s, x) : s \in RetSeqs(n - 1, hook), x \in RetChoices(n, hook)}

\* the inputs that differ in something the handlers of this registry read
Inputs ==
    UNION { [hook : {hook},
             keyCode : IF hook = "keyDown" THEN KeyCodes ELSE {KeyG},
             over : IF hook = "mouseDown" THEN BOOLEAN ELSE {FALSE},
             shift : IF /\ hook = "mouseDown"
                        /\ \E i \in 1..Len(commands) :
                              /\ HasHook(commands[i], hook)
                              /\ Listener(commands[i]).hooks[hook].kind = "unlessShift"
                     THEN BOOLEAN
                     ELSE {FALSE},
             ret : RetSeqs(Len(commands), hook),
             actRet : IF /\ hook # "action"
                         /\ \E i \in 1..Len(commands) :
                               /\ HasHook(commands[i], "action")
                               /\ Listener(commands[i]).hooks["action"].kind = "env"
                      THEN Controls
                      ELSE {"REPEAT"}] : hook \in HookNames }

(***************************************************************************)
(* The event scheduler (src/src/Scheduler.ts).  Times are in units of      *)
(* 0.1 s.  A scheduler value s holds the fields of the Scheduler object,   *)
(* the audio clock it reads, and the history written so far.               *)
(***************************************************************************)

\* new Scheduler(0.2): the resolution the Player constructs its scheduler with
Resolution == 2

\* this.time = null
Null == -1

\* the times a caller may ask for
Times == 0..MaxNow

\* The callbacks a caller hands to schedule.  A note callback only calls
\* the instrument; the others call back into the scheduler: schedule(when,
\* note callback) or stop(cleanup).  id names the callback they hand over.
Note == [kind |-> "note", when |-> 0, drift |-> 0, id |-> 0]

Reschedule(when, drift, id) == [kind |-> "schedule", when |-> when, drift |-> drift, id |-> id]

Stopper(id) == [kind |-> "stop", when |-> 0, drift |-> 0, id |-> id]

\* (a second clock read inside the callback can only be later when the
\* clock can still move after its time has passed)
Callbacks(id) ==
    {Note, Stopper(id)}
        \cup {Reschedule(w, 0, id) : w \in Times}
        \cup {Reschedule(w, 1, id) : w \in {t \in Times : t + 1 < MaxNow}}

\* the callbacks an action brings with it: itself and the one it hands over
Ids(action) == IF action.kind = "note" THEN 1 ELSE 2

\* a history entry: ev is "schedule" (schedule is called), "push" (an event
\* enters the heap), "call" (a scheduled callback is invoked), "stop" (stop
\* is called) or "cleanup" (a cleanup is invoked).  time is the scheduled
\* time of the callback, for "stop" the value of this.time at the call; arg
\* is the argument passed; late tells that schedule was asked for a time
\* before the clock time; now is the clock time at which a callback or
\* cleanup ran; pending are the events in the heap at that moment; tick
\* counts the tick calls begun so far and inTick tells that one is running.
Entry(s, ev, id, t, arg, by) ==
    [ev |-> ev, id |-> id, time |-> t, arg |-> arg, by |-> by,
     tick |-> s.ticks, inTick |-> s.inTick,
     late |-> (ev = "schedule" /\ t < s.now),
     now |-> IF ev \in {"call", "cleanup"} THEN s.now ELSE 0,
     pending |-> {e.id : e \in s.heap}]

Record(s, entry) == [s EXCEPT !.trace = Append(@, entry)]

\* history: schedule(when, callback id) is being called
Ask(s, id, when) == Record(s, Entry(s, "schedule", id, when, Null, "caller"))

\* Tone.now() read a second time, d units after the first read
ToneNow(s, d) == IF s.now + d <= MaxNow THEN s.now + d ELSE s.now

RECURSIVE Call(_, _, _, _, _, _)
RECURSIVE Schedule(_, _, _, _, _)

\* this.heap.push({ time: when, action: action })
Push(s, id, when, action) ==
    Record([s EXCEPT !.heap = @ \cup {[id |-> id, time |-> when, action |-> action]}],
           Entry(s, "push", id, when, Null, "schedule"))

\* Scheduler.stop(cleanup)
Stop(s, id) ==
    Record([s EXCEPT !.willStop = id], Entry(s, "stop", id, s.time, Null, "stop"))

\* variants of schedule: one that queues every event, one that also queues
\* the events it has fired
ScheduleDefer(s, id, when, action, d) == Push(s, id, when, action)

ScheduleAlsoQueue(s, id, when, action, d) ==
    IF when < s.now
    THEN LET s1 == [s EXCEPT !.now = ToneNow(s, d)]
         IN  Push(Call(s1, id, when, action, s1.now, "schedule"), id, when, action)
    ELSE Push(s, id, when, action)

\* Scheduler.schedule(when, action)
Schedule(s, id, when, action, d) ==
    IF when < s.now
    THEN LET s1 == [s EXCEPT !.now = ToneNow(s, d)]
         IN  Call(s1, id, when, action, s1.now, "schedule")
    ELSE Push(s, id, when, action)

\* action(arg): the callback runs, and what it calls runs inside it
Call(s, id, when, action, arg, by) ==
    LET s1 == Record(s, Entry(s, "call", id, when, arg, by))
    IN  CASE action.kind = "note" -> s1
          [] action.kind = "stop" -> Stop(s1, action.id)
          [] action.kind = "schedule" ->
                Schedule(Ask(s1, action.id, action.when),
                         action.id, action.when, Note, action.drift)

\* the orders in which the heap may hold events of equal time
TieOrders == {f \in [1..MaxIds -> 1..MaxIds] : \A i, j \in 1..MaxIds : f[i] = f[j] => i = j}

\* the events a tick can meet in the heap: those pending, and those their
\* callbacks push
Upcoming(h) ==
    {[id |-> e.id, time |-> e.time] : e \in h}
        \cup {[id |-> e.action.id, time |-> e.action.when] :
                 e \in {x \in h : x.action.kind = "schedule"}}

\* the order among equal times matters only where two times are equal
Orders(h) ==
    IF \E e, f \in Upcoming(h) : e.id # f.id /\ e.time = f.time
    THEN TieOrders
    ELSE {[i \in 1..MaxIds |-> i]}

\* a variant of peek that returns the event pushed first
PeekOldest(h, ord) == CHOOSE e \in h : \A f \in h : e.id <= f.id

\* this.heap.peek() of a heap that is not empty: an event of least time
Peek(h, ord) ==
    CHOOSE e \in h : \A f \in h :
        e.time < f.time \/ (e.time = f.time /\ ord[e.id] <= ord[f.id])

\* this.heap.pop()
Pop(s, event) == [s EXCEPT !.heap = @ \ {event}]

\* a variant that also takes the events at the bound
DueInclusive(event, nextTime) == event.time <= nextTime

\* the loop goes on: not (event.time >= nextTime)
Due(event, nextTime) == event.time < nextTime

\* a variant of the loop that leaves after the first event
DrainFirstOnly(s, nextTime, ord) ==
    IF s.heap = {}
    THEN s
    ELSE LET event == Peek(s.heap, ord)
         IN  IF ~Due(event, nextTime)
             THEN s
             ELSE Call(Pop(s, event), event.id, event.time, event.action,
                       event.time, "tick")

\* the while loop of tick
RECURSIVE Drain(_, _, _)
Drain(s, nextTime, ord) ==
    IF s.heap = {}
    THEN s
    ELSE LET event == Peek(s.heap, ord)
         IN  IF ~Due(event, nextTime)
             THEN s
             ELSE Drain(Call(Pop(s, event), event.id, event.time, event.action,
                             event.time, "tick"),
                        nextTime, ord)

\* a variant that forgets the resolution
NextTimeIsNow(s) == s.time

\* const nextTime = this.time + this.resolution
NextTime(s) == s.time + s.resolution

\* a variant that passes the clock time to the cleanup
HaltAtClock(s, nextTime) ==
    Record([s EXCEPT !.clockState = "stopped"],
           Entry(s, "cleanup", s.willStop, Null, s.time, "tick"))

\* the stopping branch of tick: this.clock.stop(); this.willStop(nextTime)
Halt(s, nextTime) ==
    Record([s EXCEPT !.clockState = "stopped"],
           Entry(s, "cleanup", s.willStop, Null, nextTime, "tick"))

\* Scheduler.tick()
Tick(s, ord) ==
    LET s1 == [s EXCEPT !.time = s.now, !.ticks = @ + 1, !.inTick = TRUE]
        nextTime == NextTime(s1)
    IN  IF s1.willStop # 0
        THEN Halt(s1, nextTime)
        ELSE [Drain(s1, nextTime, ord) EXCEPT !.time = nextTime]

\* the scheduler as the variables hold it, between two calls
Sched == [now |-> now, clockState |-> clockState, heap |-> heap, time |-> time,
          willStop |-> willStop, ticks |-> ticks, trace |-> trace, inTick |-> FALSE,
          resolution |-> Resolution]

Idle == [op |-> "none", id |-> 0, when |-> 0, now |-> 0, bound |-> Null,
         prev |-> Null, before |-> {}, stopping |-> FALSE]

\* new Scheduler(resolution)
Constructed ==
    /\ now = 0
    /\ clockState = "started"
    /\ heap = {}
    /\ time = Null
    /\ willStop = 0
    /\ issued = 0
    /\ ticks = 0
    /\ trace = <<>>
    /\ sop = Idle

(***************************************************************************)
(* MPEInstrument: the channel pool                                         *)
(***************************************************************************)
MpeIdle ==
    /\ midiOutput = FALSE
    /\ numChannels = 0
    /\ availableChannels = <<>>
    /\ channelMap = <<>>
    /\ mop = "none"

MaxChannels == 3

MaxFreq == 3

\* the frequencies notes are played at
Freqs == 1..MaxFreq

\* Array.from({ length: numChannels }, (_, i) => i+1)
ChannelPool(n) == [i \in 1..n |-> i]

\* the fields of an MPEInstrument
Mpe ==
    [midiOutput |-> midiOutput, numChannels |-> numChannels,
     availableChannels |-> availableChannels, channelMap |-> channelMap]

\* channelMap.set(freq, channel): the entry of freq is added or replaced
MapSet(map, freq, channel) ==
    [f \in DOMAIN map \cup {freq} |-> IF f = freq THEN channel ELSE map[f]]

\* channelMap.delete(freq)
MapDelete(map, freq) == [f \in DOMAIN map \ {freq} |-> map[f]]

\* startNote(when, freq, velocity)
StartNote(m, freq) ==
    IF ~m.midiOutput \/ Len(m.availableChannels) = 0
    THEN m
    ELSE [m EXCEPT !.availableChannels = Tail(m.availableChannels),
                   !.channelMap = MapSet(m.channelMap, freq,
                                         Head(m.availableChannels))]

\* stopNote(when, freq)
StopNote(m, freq) ==
    IF ~m.midiOutput \/ freq \notin DOMAIN m.channelMap
    THEN m
    ELSE [m EXCEPT !.availableChannels = Append(m.availableChannels,
                                                m.channelMap[freq]),
                   !.channelMap = MapDelete(m.channelMap, freq)]

\* playNote(when, duration, freq, velocity)
PlayNote(m, freq) == StopNote(StartNote(m, freq), freq)

\* stopAllNotes(when)
StopAllNotes(m) ==
    [m EXCEPT !.channelMap = <<>>,
              !.availableChannels = ChannelPool(m.numChannels)]

(***************************************************************************)
(* Player                                                                  *)
(***************************************************************************)
\* no Player has been constructed
PlayerIdle == player = <<>>

MaxNotes == 2

MaxPos == 3

MaxTempo == 2

\* NOTE_END_EPSILON = 0.05: the Player's times are counted in units of
\* 0.025 s, half of it, so that a note can be shorter than it
NoteEndEpsilon == 2

\* new Scheduler(0.2), in the same units
PlayerResolution == 4 * NoteEndEpsilon

\* the positions of the score that notes start and end at, and the playhead
Positions == 0..MaxPos

Tempos == 1..MaxTempo

\* a Note of the score, as far as the Player reads it
ScoreNotes == {[startTime |-> a, endTime |-> b] : a \in Positions, b \in Positions}

\* the notes the editor keeps: they end after they start
Scores ==
    UNION {[1..n -> {note \in ScoreNotes : note.startTime < note.endTime}] :
              n \in 1..MaxNotes}

\* the two callbacks of the n-th note: startNote and stopNote
OnId(n) == 2 * n - 1

OffId(n) == 2 * n

\* the cleanup handed to scheduler.stop
StopId == 2 * MaxNotes + 1

\* this.startTime + (note.startTime - playheadStart) / tempo
OnTime(p, note) == p.startTime + (note.startTime - p.playheadStart) \div p.tempo

\* this.startTime + (note.endTime - playheadStart) / tempo - NOTE_END_EPSILON
OffTime(p, note) ==
    p.startTime + (note.endTime - p.playheadStart) \div p.tempo - NoteEndEpsilon

\* the divisions by tempo come out in whole units
Exact(p) ==
    \A n \in DOMAIN p.notes :
        p.notes[n].startTime >= p.playheadStart =>
            /\ (p.notes[n].startTime - p.playheadStart) % p.tempo = 0
            /\ (p.notes[n].endTime - p.playheadStart) % p.tempo = 0

\* the scheduler of the Player
PlayerSched == [Sched EXCEPT !.resolution = PlayerResolution]

\* for (const note of this.notes): from the n-th note on
RECURSIVE ScheduleNotes(_, _, _)
ScheduleNotes(s, p, n) ==
    IF n > Len(p.notes)
    THEN s
    ELSE LET note == p.notes[n]
             on == OnTime(p, note)
             off == OffTime(p, note)
         IN  IF note.startTime >= p.playheadStart
             THEN ScheduleNotes(
                      Schedule(Ask(Schedule(Ask(s, OnId(n), on), OnId(n), on, Note, 0),
                                   OffId(n), off),
                               OffId(n), off, Note, 0),
                      p, n + 1)
             ELSE ScheduleNotes(s, p, n + 1)

\* the orders in which the heap of the Player may hold events of equal time
PlayerOrders(h) ==
    IF \E e, f \in h : e.id # f.id /\ e.time = f.time
    THEN {f \in [1..2 * MaxNotes -> 1..2 * MaxNotes] :
             \A i, j \in 1..2 * MaxNotes : f[i] = f[j] => i = j}
    ELSE {[i \in 1..2 * MaxNotes |-> i]}

(***************************************************************************)
(* Actions                                                                 *)
(***************************************************************************)
Init ==
    /\ commands = <<>>
    /\ microtasks = <<>>
    /\ log = <<>>
    /\ snap = <<>>
    /\ err = "none"
    /\ last = [hook |-> "none", keyCode |-> KeyG]
    /\ op = "init"
    /\ Constructed
    /\ WhenIdle
    /\ MpeIdle
    /\ PlayerIdle

\* Runner.register(description, category, command), called from a host task
Register(p) ==
    /\ Len(commands) < MaxCommands
    /\ microtasks = <<>>
    /\ LET e == Flush([commands |-> Append(commands, Started(NewCommand(p))),
                       microtasks |-> microtasks], Len(commands) + 1)
       IN  /\ commands' = e.commands
           /\ microtasks' = Strip(e.microtasks)
    /\ op' = "register"
    /\ UNCHANGED <<log, snap, err, last>>
    /\ UNCHANGED <<schedVars, unitVars>>

\* Runner.dispatch(hook), called from a host event handler: the host starts
\* an event handler only when no microtask is left
Dispatch(in) ==
    /\ microtasks = <<>>
    /\ \A i \in DOMAIN commands : Len(commands[i].waits) < MaxWaits
    /\ \E e \in {DispatchFrom(Engine, 1, in)} :
           /\ commands' = e.commands
           /\ microtasks' = Strip(e.microtasks)
           /\ log' = e.log
           /\ snap' = e.snap
           /\ err' = e.err
    /\ last' = [hook |-> in.hook, keyCode |-> in.keyCode]
    /\ op' = "dispatch"
    /\ UNCHANGED <<schedVars, unitVars>>

\* the continuation of a procedure after the listen call of step pc: the
\* next listen call, or completion, whose then-callback calls initState;
\* first a variant in which a resumed action listener stays installed
ResumeKeep(cs, job) ==
    IF "action" \in DOMAIN ProcBody(cs[job.cmd].proc)[job.pc].hooks
    THEN [commands |-> cs, then |-> <<>>]
    ELSE IF job.pc < Len(ProcBody(cs[job.cmd].proc))
    THEN [commands |-> [cs EXCEPT ![job.cmd] = Listen(@, job.pc + 1, job.val, job.stale)],
          then |-> <<>>]
    ELSE [commands |-> cs,
          then |-> <<[type |-> "restart", cmd |-> job.cmd, pc |-> job.pc,
                      val |-> "none", stale |-> job.stale,
                      ticks |-> 0]>>]

\* two variants of the completion: one without the then-callback, one that
\* empties the command's state
ResumeOnce(cs, job) ==
    IF job.pc < Len(ProcBody(cs[job.cmd].proc))
    THEN [commands |-> [cs EXCEPT ![job.cmd] = Listen(@, job.pc + 1, job.val, job.stale)],
          then |-> <<>>]
    ELSE [commands |-> cs, then |-> <<>>]

ResumeEmptied(cs, job) ==
    IF job.pc < Len(ProcBody(cs[job.cmd].proc))
    THEN [commands |-> [cs EXCEPT ![job.cmd] = Listen(@, job.pc + 1, job.val, job.stale)],
          then |-> <<>>]
    ELSE [commands |-> [cs EXCEPT ![job.cmd].state = EmptyState,
                                  ![job.cmd].listener = EmptyListener],
          then |-> <<[type |-> "restart", cmd |-> job.cmd, pc |-> job.pc,
                      val |-> "none", stale |-> job.stale,
                      ticks |-> 0]>>]

\* a procedure that throws rejects its promise: the then-callback of
\* initState is not called
Resume(cs, job) ==
    IF Throws(cs[job.cmd].proc, job.pc)
    THEN [commands |-> cs, then |-> <<>>]
    ELSE IF job.pc < Len(ProcBody(cs[job.cmd].proc))
    THEN [commands |-> [cs EXCEPT ![job.cmd] = Listen(@, job.pc + 1, job.val, job.stale)],
          then |-> <<>>]
    ELSE [commands |-> cs,
          then |-> <<[type |-> "restart", cmd |-> job.cmd, pc |-> job.pc,
                      val |-> "none", stale |-> job.stale,
                      ticks |-> 0]>>]

\* the continuation the host runs next
NextJob == Head(Turn(microtasks))

\* the host runs the microtasks in their order, up to and with the next
\* continuation of the program
RunMicrotask ==
    /\ microtasks # <<>>
    /\ \E q \in {Turn(microtasks)} :
       LET job == Head(q)
       IN  CASE job.type = "resume" ->
                  LET r == Resume(commands, job)
                      e == Flush([commands |-> r.commands,
                                  microtasks |-> Tail(q) \o r.then], job.cmd)
                  IN  /\ commands' = e.commands
                      /\ microtasks' = e.microtasks
             [] job.type = "install" ->
                  /\ commands' = [commands EXCEPT ![job.cmd] =
                                     Install(@, job.pc, job.val, job.stale)]
                  /\ microtasks' = Tail(q)
             [] job.type = "restart" ->
                  LET e == InitState([commands |-> commands,
                                      microtasks |-> Tail(q)], job.cmd)
                  IN  /\ commands' = e.commands
                      /\ microtasks' = Strip(e.microtasks)
    /\ op' = "microtask"
    /\ UNCHANGED <<log, snap, err, last>>
    /\ UNCHANGED <<schedVars, unitVars>>

\* the promise a listen call of command i waits for is fulfilled, in a host
\* task: the continuation of its await is queued
Settle(i, k) ==
    /\ microtasks = <<>>
    /\ i \in DOMAIN commands
    /\ k \in DOMAIN commands[i].waits
    /\ commands' = [commands EXCEPT ![i].waits =
                       [j \in 1..Len(@) - 1 |-> IF j < k THEN @[j] ELSE @[j + 1]]]
    /\ microtasks' = <<InstallJob(i, commands[i].waits[k])>>
    /\ op' = "settle"
    /\ UNCHANGED <<log, snap, err, last>>
    /\ UNCHANGED <<schedVars, unitVars>>

Next ==
    \/ \E p \in Procs : Register(p)
    \/ \E in \in Inputs : Dispatch(in)
    \/ RunMicrotask

Spec == Init /\ [][Next]_vars

\* the engine with clients that hand listen a promise of the listener
PromiseProcs == {"deferred", "prompt", "simpleKey"}

\* the client registers each of its procedures once
RegisterOnce(p) ==
    /\ \A i \in DOMAIN commands : commands[i].proc # p
    /\ Register(p)

PromiseNext ==
    \/ \E p \in PromiseProcs : RegisterOnce(p)
    \/ \E in \in Inputs : Dispatch(in)
    \/ RunMicrotask
    \/ \E i \in 1..MaxCommands : \E k \in 1..MaxWaits : Settle(i, k)

PromiseSpec == Init /\ [][PromiseNext]_vars

\* the engine with a client whose handler dispatches re-entrantly
ReentryProcs == {"reentrant", "simpleKey"}

ReentryNext ==
    \/ \E p \in ReentryProcs : Register(p)
    \/ \E in \in Inputs : Dispatch(in)
    \/ RunMicrotask

ReentrySpec == Init /\ [][ReentryNext]_vars

\* the engine with a command whose procedure throws
ThrowProcs == {"thrower", "simpleKey"}

ThrowNext ==
    \/ \E p \in ThrowProcs : Register(p)
    \/ \E in \in Inputs : Dispatch(in)
    \/ RunMicrotask

ThrowSpec == Init /\ [][ThrowNext]_vars

\* the engine with the pointer and key commands of NotesView.registerCommands
EditorProcs == {"simpleKey", "selectMove", "createNote"}

EditorNext ==
    \/ \E p \in EditorProcs : Register(p)
    \/ \E in \in Inputs : Dispatch(in)
    \/ RunMicrotask

EditorSpec == Init /\ [][EditorNext]_vars

(***************************************************************************)
(* The scheduler's operations                                              *)
(***************************************************************************)
Commit(s) ==
    \E v \in {s} :
        /\ now' = v.now
        /\ clockState' = v.clockState
        /\ heap' = v.heap
        /\ time' = v.time
        /\ willStop' = v.willStop
        /\ ticks' = v.ticks
        /\ trace' = v.trace

\* the audio clock moves on
Elapse ==
    /\ now < MaxNow
    /\ now' = now + 1
    /\ sop' = Idle
    /\ UNCHANGED <<clockState, heap, time, willStop, issued, ticks, trace>>
    /\ UNCHANGED <<engineVars, unitVars>>

\* a caller outside the scheduler calls schedule(when, action); the second
\* read of Tone.now() can be later than the first only when it is made
ScheduleCall(when, action, d) ==
    /\ issued + Ids(action) <= MaxIds
    /\ d = 0 \/ (when < now /\ now < MaxNow)
    /\ Commit(Schedule(Ask(Sched, issued + 1, when), issued + 1, when, action, d))
    /\ issued' = issued + Ids(action)
    /\ sop' = [Idle EXCEPT !.op = "schedule", !.id = issued + 1, !.when = when,
                           !.now = now]
    /\ UNCHANGED <<engineVars, unitVars>>

\* a caller outside the scheduler calls stop(cleanup)
StopCall ==
    /\ issued < MaxIds
    /\ Commit(Stop(Sched, issued + 1))
    /\ issued' = issued + 1
    /\ sop' = [Idle EXCEPT !.op = "stop", !.id = issued + 1, !.now = now]
    /\ UNCHANGED <<engineVars, unitVars>>

\* tick(): the Tone.Clock callback calls it; tick itself does not look at
\* the state of the clock
TickCall(ord) ==
    /\ ticks < MaxTicks
    /\ Commit(Tick(Sched, ord))
    /\ sop' = [Idle EXCEPT !.op = "tick", !.now = now,
                           !.bound = NextTime([Sched EXCEPT !.time = now]),
                           !.prev = time, !.before = heap,
                           !.stopping = (willStop # 0)]
    /\ UNCHANGED issued
    /\ UNCHANGED <<engineVars, unitVars>>

SchedulerNext ==
    \/ Elapse
    \/ \E when \in Times : \E action \in Callbacks(issued + 2) : \E d \in 0..1 :
          ScheduleCall(when, action, d)
    \/ StopCall
    \/ \E ord \in Orders(heap) : TickCall(ord)

SchedulerSpec == Init /\ [][SchedulerNext]_vars

(***************************************************************************)
(* The scheduler when stop is never called: the Tone.Clock goes on calling *)
(* tick and the audio clock goes on; the clock stays within the model once *)
(* it has passed every time an event can be scheduled for.                 *)
(***************************************************************************)
LiveCallbacks(id) == Callbacks(id) \ {Stopper(id)}

\* tick(), any number of times: the count of ticks is kept up to MaxTicks
LiveTick(ord) ==
    /\ Commit(Tick([Sched EXCEPT !.ticks = IF ticks < MaxTicks THEN ticks
                                           ELSE MaxTicks - 1], ord))
    /\ sop' = [Idle EXCEPT !.op = "tick", !.now = now,
                           !.bound = NextTime([Sched EXCEPT !.time = now]),
                           !.prev = time, !.before = heap]
    /\ UNCHANGED issued
    /\ UNCHANGED <<engineVars, unitVars>>

LiveNext ==
    \/ Elapse
    \/ \E when \in Times : \E action \in LiveCallbacks(issued + 2) : \E d \in 0..1 :
          ScheduleCall(when, action, d)
    \/ \E ord \in Orders(heap) : LiveTick(ord)

\* the audio clock goes on (weak fairness of Elapse) and the Tone.Clock goes
\* on calling tick: a call of tick is always possible and leaves sop.op =
\* "tick", which every other step of the scheduler changes, so that "tick is
\* called again and again" is "again and again the last call was tick"
LiveSpec ==
    /\ Init
    /\ [][LiveNext]_vars
    /\ WF_vars(Elapse)
    /\ []<>(sop.op = "tick")

(***************************************************************************)
(* Context.when applied: a listener and a predicate are given, then the    *)
(* handlers of the wrapped listener are called                             *)
(***************************************************************************)
WhenInit ==
    /\ commands = <<>>
    /\ microtasks = <<>>
    /\ log = <<>>
    /\ snap = <<>>
    /\ err = "none"
    /\ last = [hook |-> "none", keyCode |-> KeyG]
    /\ op = "init"
    /\ Constructed
    /\ wListener \in Listeners
    /\ wHolds \in SUBSET Values
    /\ wAnswer = Unasked
    /\ MpeIdle
    /\ PlayerIdle

\* When(...).hooks[hook](): the wrapped handler calls hook(), which returns
\* status, and answers
WhenCall(hook, status) ==
    /\ hook \in DOMAIN When(wHolds, wListener).hooks
    /\ wAnswer' = [hook |-> hook, status |-> status,
                   answer |-> WhenHandler(When(wHolds, wListener).hooks[hook].holds,
                                          status)]
    /\ UNCHANGED <<wListener, wHolds>>
    /\ UNCHANGED <<engineVars, schedVars, mpeVars, playerVars>>

WhenNext == \E hook \in HookNames : \E status \in Statuses : WhenCall(hook, status)

WhenSpec == WhenInit /\ [][WhenNext]_vars

(***************************************************************************)
(* An MPEInstrument after its constructor: with or without a MIDI output,  *)
(* its methods called in any order                                         *)
(***************************************************************************)
MpeInit ==
    /\ commands = <<>>
    /\ microtasks = <<>>
    /\ log = <<>>
    /\ snap = <<>>
    /\ err = "none"
    /\ last = [hook |-> "none", keyCode |-> KeyG]
    /\ op = "init"
    /\ Constructed
    /\ WhenIdle
    /\ midiOutput \in BOOLEAN
    /\ numChannels \in 1..MaxChannels
    /\ availableChannels = ChannelPool(numChannels)
    /\ channelMap = <<>>
    /\ mop = "new"
    /\ PlayerIdle

MpeCommit(m, name) ==
    /\ availableChannels' = m.availableChannels
    /\ channelMap' = m.channelMap
    /\ mop' = name
    /\ UNCHANGED <<midiOutput, numChannels>>
    /\ UNCHANGED <<engineVars, schedVars, whenVars, playerVars>>

StartNoteCall(freq) == MpeCommit(StartNote(Mpe, freq), "startNote")

StopNoteCall(freq) == MpeCommit(StopNote(Mpe, freq), "stopNote")

PlayNoteCall(freq) == MpeCommit(PlayNote(Mpe, freq), "playNote")

StopAllNotesCall == MpeCommit(StopAllNotes(Mpe), "stopAllNotes")

MpeNext ==
    \/ \E freq \in Freqs : StartNoteCall(freq)
    \/ \E freq \in Freqs : StopNoteCall(freq)
    \/ \E freq \in Freqs : PlayNoteCall(freq)
    \/ StopAllNotesCall

MpeSpec == MpeInit /\ [][MpeNext]_vars

(***************************************************************************)
(* A Player: constructed once over a score, its scheduler ticked by the    *)
(* Tone.Clock, stopped by the editor                                       *)
(***************************************************************************)
\* new Player(notes, tempo, instrument, playheadStart)
NewPlayer(notes, tempo, playheadStart) ==
    LET p == [notes |-> notes, tempo |-> tempo, playheadStart |-> playheadStart,
              startTime |-> now]
    IN  /\ player = <<>>
        /\ Exact(p)
        /\ Commit(ScheduleNotes(PlayerSched, p, 1))
        /\ player' = <<p>>
        /\ issued' = 2 * Len(notes)
        /\ sop' = [Idle EXCEPT !.op = "schedule", !.now = now]
        /\ UNCHANGED <<engineVars, whenVars, mpeVars>>

\* the Tone.Clock of the Player's scheduler calls tick()
PlayerTick(ord) ==
    /\ player # <<>>
    /\ ticks < MaxTicks
    /\ Commit(Tick(PlayerSched, ord))
    /\ sop' = [Idle EXCEPT !.op = "tick", !.now = now,
                           !.bound = NextTime([PlayerSched EXCEPT !.time = now]),
                           !.prev = time, !.before = heap,
                           !.stopping = (willStop # 0)]
    /\ UNCHANGED <<issued, player>>
    /\ UNCHANGED <<engineVars, whenVars, mpeVars>>

\* Player.stop()
PlayerStop ==
    /\ player # <<>>
    /\ willStop = 0
    /\ Commit(Stop(PlayerSched, StopId))
    /\ sop' = [Idle EXCEPT !.op = "stop", !.id = StopId, !.now = now]
    /\ UNCHANGED <<issued, player>>
    /\ UNCHANGED <<engineVars, whenVars, mpeVars>>

PlayerNext ==
    \/ Elapse
    \/ \E notes \in Scores : \E tempo \in Tempos : \E playheadStart \in Positions :
          NewPlayer(notes, tempo, playheadStart)
    \/ \E ord \in PlayerOrders(heap) : PlayerTick(ord)
    \/ PlayerStop

PlayerSpec == Init /\ [][PlayerNext]_vars

(***************************************************************************)
(* Reading the history of the last dispatch call                           *)
(***************************************************************************)
Entries == DOMAIN log

HookCalls == {k \in Entries : log[k].ev = "hook"}

ActionCalls == {k \in Entries : log[k].ev = "action"}

Resolutions == {k \in Entries : log[k].ev = "resolve"}

Restarts == {k \in Entries : log[k].ev = "restart"}

Consumed == \E k \in HookCalls : log[k].control = "CONSUME"

\* the listener whose handler entry k invoked
ListenerAt(k) == ProcBody(commands[log[k].cmd].proc)[log[k].pc]

\* the commands that held an action handler when resolveActions began, and
\* the highest priority among them
Contenders == {i \in DOMAIN snap : snap[i] # NoAction}

MaxPriority == CHOOSE m \in {snap[i] : i \in Contenders} :
                  \A i \in Contenders : snap[i] <= m

Tied == {i \in Contenders : snap[i] = MaxPriority}

First(S) == CHOOSE i \in S : \A j \in S : i <= j

FirstListen == ListenState(1, "none")

(***************************************************************************)
(* Claims                                                                  *)
(***************************************************************************)

\* C1: in one dispatch call a hook handler's CONSUME is the last thing that
\* happens: no handler of a later command is invoked, no action is resolved
\* and no command is restarted after it, so at most one CONSUME is honored.
C1_ConsumeEndsDispatch ==
    \A k \in HookCalls : log[k].control = "CONSUME" => k = Len(log)

\* a dispatch consumed by the first command while the second command also
\* holds a handler for the dispatched hook
C1_Witness ==
    /\ op = "dispatch"
    /\ Len(commands) >= 2
    /\ Len(log) = 1
    /\ log[1].ev = "hook" /\ log[1].cmd = 1 /\ log[1].control = "CONSUME"
    /\ HasHook(commands[2], last.hook)

\* C2: one dispatch call invokes at most one action handler, whatever the
\* number of commands that hold one and whatever their priorities.
C2_AtMostOneAction == Cardinality(ActionCalls) <= 1

\* two commands tied at the highest priority, one action handler invoked
C2_Witness ==
    /\ op = "dispatch"
    /\ Cardinality(Tied) >= 2
    /\ Cardinality(ActionCalls) = 1

\* C3: only a command at the highest priority has its action handler
\* invoked; every command that held an action handler of lower priority is
\* restarted, is not invoked, and is at its first listen call when the
\* dispatch returns.
C3_LowerPriorityRestarted ==
    /\ \A k \in ActionCalls : snap[log[k].cmd] = MaxPriority
    /\ \A i \in Contenders :
          snap[i] < MaxPriority =>
             /\ \E k \in Restarts : log[k].cmd = i
             /\ \A k \in ActionCalls : log[k].cmd # i
             /\ op = "dispatch" => commands[i].state = FirstListen

\* priorities 0 and 1 contend: the handler of the command with priority 1 is
\* invoked and the command with priority 0, which had progressed, is restarted
C3_Witness ==
    /\ op = "dispatch"
    /\ \E i, j \in Contenders :
          /\ snap[i] = 0 /\ snap[j] = 1
          /\ \E k \in ActionCalls : log[k].cmd = j
          /\ \E k \in Restarts : log[k].cmd = i /\ log[k].pc > 1

\* C4: when several commands tie at the highest priority, the action handler
\* of exactly one of them is invoked, the one registered first, and every
\* other tied command is restarted.
C4_TieChoosesFirst ==
    Cardinality(Tied) >= 2 =>
       /\ Cardinality(ActionCalls) = 1
       /\ \A k \in ActionCalls : log[k].cmd = First(Tied)
       /\ \A i \in Tied \ {First(Tied)} :
             /\ \E k \in Restarts : log[k].cmd = i
             /\ op = "dispatch" => commands[i].state = FirstListen
       /\ \A k \in Restarts, a \in ActionCalls :
             log[k].cmd = First(Tied) => (k > a /\ log[a].control = "CANCEL")

\* a tie in which the command registered second was restarted
C4_Witness ==
    /\ op = "dispatch"
    /\ Cardinality(Tied) >= 2
    /\ \E k \in Restarts : log[k].cmd \in Tied /\ log[k].cmd # First(Tied)
    /\ \E k \in ActionCalls : log[k].cmd = First(Tied)

\* C5: after a hook handler of a command has returned CANCEL, the command
\* is at the first listen call of its procedure, its promise pending and
\* nothing of the cancelled activation queued or waiting, as after register
\* (only the first listen call of the new activation may still have its
\* listener to install); this still holds when the continuations queued by
\* the dispatch have run, and until the next dispatch.
C5_CancelRestartsFresh ==
    \A k \in HookCalls :
       log[k].control = "CANCEL" =>
          /\ \E r \in Restarts : r = k + 1 /\ log[r].cmd = log[k].cmd
          /\ \A a \in ActionCalls :
                log[a].cmd = log[k].cmd => (log[a].pc = 1 /\ ~log[a].again)
          /\ (\A a \in ActionCalls : log[a].cmd # log[k].cmd) =>
                LET i == log[k].cmd
                    started == Started(NewCommand(commands[i].proc))
                IN  /\ \A m \in DOMAIN microtasks :
                          microtasks[m].cmd = i =>
                              \E w \in DOMAIN started.waits :
                                  microtasks[m] = InstallJob(i, started.waits[w])
                    /\ \A w \in DOMAIN commands[i].waits : ~commands[i].waits[w].stale
                    /\ (\A m \in DOMAIN microtasks : microtasks[m].cmd # i) =>
                          commands[i].state = FirstListen

\* a command that had reached its second listen call is cancelled
C5_Witness ==
    /\ op = "dispatch"
    /\ \E k \in HookCalls :
          /\ log[k].control = "CANCEL"
          /\ log[k].pc = 2
          /\ commands[log[k].cmd].state = FirstListen

\* C6 as stated: the keyDown dispatch with code k that the command consumes
\* runs the effect, at the latest when its continuations have run.
C6_EffectOnKeyDispatch ==
    (/\ last.hook = "keyDown"
     /\ last.keyCode = KeyG
     /\ microtasks = <<>>) =>
        \A k \in HookCalls :
           (log[k].control = "CONSUME" /\ commands[log[k].cmd].proc = "simpleKey") =>
              \E e \in Entries : log[e].cmd = log[k].cmd /\ log[e].effect

\* C6 amended: for a command that waits on key(k) and then calls
\* cx.action(effect): a keyDown dispatch with another code invokes its handler
\* without effect, restart or resumption; a keyDown dispatch with code k is
\* consumed by it and runs no effect, it only queues the continuation that
\* installs the action listener of priority 0; the effect runs only as the
\* action handler of that second listen call, in a later dispatch, and not
\* twice for one call.
C6_EffectOnLaterResolution ==
    \A k \in Entries :
       (log[k].ev # "resolve" /\ commands[log[k].cmd].proc = "simpleKey") =>
          /\ (log[k].ev = "hook" /\ last.keyCode # KeyG) =>
                /\ log[k].control = "REPEAT"
                /\ \A e \in Entries : log[e].cmd = log[k].cmd => e = k
                /\ commands[log[k].cmd].state = FirstListen
                /\ \A m \in DOMAIN microtasks : microtasks[m].cmd # log[k].cmd
          /\ (log[k].ev = "hook" /\ last.keyCode = KeyG) =>
                /\ last.hook = "keyDown"
                /\ log[k].control = "CONSUME"
                /\ k = Len(log)
                /\ \A e \in Entries : ~log[e].effect
                /\ op = "dispatch" =>
                      /\ commands[log[k].cmd].state.pc = 1
                      /\ Queued(microtasks,
                                [type |-> "resume", cmd |-> log[k].cmd, pc |-> 1,
                                 val |-> "null", stale |-> FALSE, ticks |-> 0])
          /\ log[k].effect =>
                /\ log[k].ev = "action"
                /\ log[k].pc = 2
                /\ snap[log[k].cmd] = 0
                /\ ~log[k].again

\* the command consumed the key, its continuation ran, and the effect has
\* not run: the command waits on its action listener
C6_Witness ==
    /\ last.hook = "keyDown" /\ last.keyCode = KeyG
    /\ microtasks = <<>>
    /\ \E k \in HookCalls :
          /\ log[k].control = "CONSUME"
          /\ commands[log[k].cmd].proc = "simpleKey"
          /\ commands[log[k].cmd].state = ListenState(2, "null")

\* C7 as stated: every dispatch call for a hook other than action resolves
\* the actions exactly once.
C7_AlwaysResolves ==
    (op = "dispatch" /\ last.hook # "action") => Cardinality(Resolutions) = 1

\* C7 amended: a dispatch call for a hook other than action resolves the
\* actions at most once, after every hook handler it invokes has returned;
\* it resolves them exactly once when no hook handler returned CONSUME and
\* not at all when one did.
C7_ResolvesUnlessConsumed ==
    last.hook # "action" =>
       /\ Cardinality(Resolutions) <= 1
       /\ \A k \in HookCalls, r \in Resolutions : k < r
       /\ Consumed => Resolutions = {}
       /\ (op = "dispatch" /\ ~Consumed) => Cardinality(Resolutions) = 1

\* a dispatch in which two hook handlers ran and the actions were resolved
\* after them
C7_Witness ==
    /\ op = "dispatch"
    /\ Cardinality(HookCalls) >= 2
    /\ \E r \in Resolutions : \A k \in HookCalls : k < r
    /\ ActionCalls # {}

\* C8: a command whose hook handler returned CONSUME does not have its
\* action handler invoked by the same dispatch call.
C8_ConsumerTakesNoAction ==
    \A k \in HookCalls :
       log[k].control = "CONSUME" =>
          \A a \in ActionCalls : log[a].cmd # log[k].cmd

\* a command consumes the hook through a listener that also holds an action
\* handler
C8_Witness ==
    /\ op = "dispatch"
    /\ \E k \in HookCalls :
          /\ log[k].control = "CONSUME"
          /\ "action" \in DOMAIN ListenerAt(k).hooks

\* the values a handler of the listener of step pc can carry
Carried(p, pc) ==
    LET hooks == ProcBody(p)[pc].hooks
    IN  {Cb(hooks[h], h, 1, [keyCode |-> hooks[h].keyCode, over |-> TRUE,
                            ret |-> <<c>>, actRet |-> c]).value :
            h \in DOMAIN hooks, c \in {"PROCEED", "CONSUME"}} \ {"none"}

\* the handler returns of the last dispatch that resolved a pending promise
Resolving == {k \in HookCalls \cup ActionCalls :
                 log[k].control \in {"PROCEED", "CONSUME"} /\ log[k].pending}

\* C9: a listen call is resumed at most once, by the first PROCEED or CONSUME
\* of one of its handlers and with the value that status carries; REPEAT and
\* CANCEL queue no continuation of a listen call, nor does a later PROCEED of
\* the same listener.  (A restart may queue the continuation of an await of
\* the promise that its first listen call was given.)
C9_ResumedOnce ==
    /\ \A m, n \in DOMAIN microtasks :
          (/\ microtasks[m].type = "resume" /\ microtasks[n].type = "resume"
           /\ microtasks[m].cmd = microtasks[n].cmd) => m = n
    /\ op = "dispatch" =>
          /\ \A m \in DOMAIN microtasks :
                /\ microtasks[m].type \in {"resume", "install"}
                /\ microtasks[m].type = "resume" =>
                      \E k \in Resolving :
                          /\ log[k].cmd = microtasks[m].cmd
                          /\ log[k].pc = microtasks[m].pc
                          /\ log[k].value = microtasks[m].val
          /\ \A k \in Resolving :
                \E m \in DOMAIN microtasks :
                    microtasks[m].type = "resume" /\ microtasks[m].cmd = log[k].cmd
          /\ \A k, j \in Resolving : log[k].cmd = log[j].cmd => k = j
    /\ \A i \in DOMAIN commands :
          commands[i].state.pc > 1 =>
             commands[i].state.val \in Carried(commands[i].proc, commands[i].state.pc - 1)

\* a hook handler and then the action handler of the same listener both
\* returned PROCEED in one dispatch; one continuation is queued, carrying the
\* value of the first
C9_Witness ==
    /\ op = "dispatch"
    /\ \E k \in HookCalls, a \in ActionCalls :
          /\ log[k].cmd = log[a].cmd
          /\ log[k].control = "PROCEED" /\ log[a].control = "PROCEED"
          /\ ~log[a].pending
          /\ Len(microtasks) = 1
          /\ microtasks[1].val = log[k].value

\* C10: the handler of a Context.action listener runs its effect at most
\* once per call: when it is invoked the effect has not run for that call,
\* it returns PROCEED and the procedure is resumed with the effect's return
\* value; called without a priority the listener contends with priority 0.
C10_ActionSingleShot ==
    \A a \in ActionCalls :
       ListenerAt(a).hooks["action"].kind = "code" =>
          /\ log[a].effect
          /\ ~log[a].again
          /\ log[a].pending
          /\ log[a].control = "PROCEED"
          /\ snap[log[a].cmd] = 0
          /\ op = "dispatch" =>
                Queued(microtasks,
                       [type |-> "resume", cmd |-> log[a].cmd, pc |-> log[a].pc,
                        val |-> "x", stale |-> FALSE, ticks |-> 0])

\* the effect of a simpleKey command has run and its continuation is done:
\* the procedure completed and the command is at its first listen call again
C10_Witness ==
    /\ op = "microtask"
    /\ microtasks = <<>>
    /\ \E a \in ActionCalls :
          /\ commands[log[a].cmd].proc = "simpleKey"
          /\ log[a].effect
          /\ commands[log[a].cmd].state = FirstListen

(***************************************************************************)
(* Reading the scheduler's history                                         *)
(***************************************************************************)
Steps == DOMAIN trace

Asks == {k \in Steps : trace[k].ev = "schedule"}

Pushes == {k \in Steps : trace[k].ev = "push"}

Calls == {k \in Steps : trace[k].ev = "call"}

\* the callbacks a tick took from the heap and invoked
TickFired == {k \in Calls : trace[k].by = "tick"}

\* the callbacks schedule invoked itself
SyncFired == {k \in Calls : trace[k].by = "schedule"}

Stops == {k \in Steps : trace[k].ev = "stop"}

Cleanups == {k \in Steps : trace[k].ev = "cleanup"}

PendingIds == {e.id : e \in heap}

\* the invocations of the cleanup that stop call k armed
RunsOf(k) == {c \in Cleanups : trace[c].id = trace[k].id}

Max(a, b) == IF a >= b THEN a ELSE b

(***************************************************************************)
(* C11: schedule(time, callback) invokes callback before it returns, with  *)
(* the current clock time as argument, for every time at or before the     *)
(* current clock time, time = now included, and does not queue it.         *)
(* Violated: at time = now the test when < Tone.now() fails and the event  *)
(* is pushed on the heap.                                                  *)
(***************************************************************************)
C11_FiresAtOrBeforeNow ==
    (sop.op = "schedule" /\ sop.when <= sop.now) =>
        /\ \E k \in SyncFired : /\ trace[k].id = sop.id
                                /\ trace[k].arg = trace[k].now
        /\ sop.id \notin PendingIds
        /\ \A p \in Pushes : trace[p].id # sop.id

(***************************************************************************)
(* C12: the scheduled times of the callbacks the ticks invoke, in the      *)
(* order of invocation across all ticks, are non-decreasing.  Violated: a  *)
(* tick drains up to clock + resolution, and schedule still queues a time  *)
(* between the clock time and that bound.  Stated for the callbacks that   *)
(* were scheduled between ticks, not from inside a callback.               *)
(***************************************************************************)
\* the callback invoked at k was handed to schedule outside every tick
AskedOutside(k) == \E a \in Asks : trace[a].id = trace[k].id /\ ~trace[a].inTick

C12_NonDecreasing ==
    \A i, j \in TickFired :
        (i < j /\ AskedOutside(i) /\ AskedOutside(j)) => trace[i].time <= trace[j].time

(***************************************************************************)
(* C13: for every call stop(cleanup), cleanup is invoked exactly once: not *)
(* by stop itself but by the next tick after the call, and never again.    *)
(* Violated: a second stop before the tick replaces the first cleanup, and *)
(* willStop stays armed, so every further tick invokes the cleanup again.  *)
(***************************************************************************)
C13_CleanupExactlyOnce ==
    \A k \in Stops :
        /\ Cardinality(RunsOf(k)) <= 1
        /\ \A c \in RunsOf(k) : c > k /\ trace[c].tick = trace[k].tick + 1
        /\ ticks > trace[k].tick => RunsOf(k) # {}

(***************************************************************************)
(* C14: once a cleanup has been invoked, no callback passed to schedule is *)
(* invoked again.  Violated: schedule does not look at willStop or at the  *)
(* clock's state and still invokes a callback for a past time.             *)
(***************************************************************************)
C14_NothingAfterCleanup ==
    \A c \in Cleanups : \A k \in Calls : k < c

(***************************************************************************)
(* C15: the time passed to cleanup is the clock time read at the stopping  *)
(* tick plus the resolution, and it is at least this.time as it was when   *)
(* stop was called (the time of the tick stop was called in or after).     *)
(***************************************************************************)
C15_CleanupTime ==
    \A c \in Cleanups :
        /\ trace[c].arg = trace[c].now + Resolution
        /\ \A k \in Stops :
              (trace[k].id = trace[c].id /\ trace[k].time # Null)
                  => trace[c].arg >= trace[k].time

\* a cleanup ran whose stop was called after a tick, with the clock still
\* where that tick read it: the two times are equal
C15_Witness ==
    \E c \in Cleanups : \E k \in Stops :
        /\ trace[k].id = trace[c].id
        /\ trace[k].time # Null
        /\ trace[c].arg = trace[k].time

(***************************************************************************)
(* C16: of two events pending in the heap at the same moment, the one with *)
(* the strictly smaller time is invoked strictly before the other,         *)
(* whatever order they were scheduled in.                                  *)
(***************************************************************************)
\* the events pushed at p and q were in the heap together: the one pushed
\* first had not been taken out when the other was pushed
CoPending(p, q) ==
    /\ p < q
    /\ ~ \E c \in TickFired : trace[c].id = trace[p].id /\ c < q

C16_SmallerFiresFirst ==
    \A p, q \in Pushes :
        (trace[p].time < trace[q].time /\ (CoPending(p, q) \/ CoPending(q, p))) =>
            \A cq \in TickFired :
                trace[cq].id = trace[q].id =>
                    \E cp \in TickFired : trace[cp].id = trace[p].id /\ cp < cq

\* the later event was scheduled first, and both have fired
C16_Witness ==
    \E p, q \in Pushes :
        /\ q < p
        /\ trace[p].time < trace[q].time
        /\ CoPending(q, p)
        /\ \E cq \in TickFired : trace[cq].id = trace[q].id
        /\ \E cp \in TickFired : trace[cp].id = trace[p].id

(***************************************************************************)
(* C17: when a tick that is not a stopping tick returns, every event that  *)
(* was pending when it began with a time strictly below the tick's bound   *)
(* has been invoked, in ascending time order and with its own scheduled    *)
(* time as argument, and every event at or above the bound is still        *)
(* pending and was not invoked; nothing below the bound is left pending.   *)
(***************************************************************************)
\* the invocations by the tick that has just returned
FiredNow == {k \in TickFired : trace[k].tick = ticks}

C17_TickDrainsBelowBound ==
    (sop.op = "tick" /\ ~sop.stopping) =>
        /\ \A e \in sop.before :
              IF e.time < sop.bound
              THEN /\ e \notin heap
                   /\ \E k \in FiredNow : trace[k].id = e.id /\ trace[k].arg = e.time
              ELSE /\ e \in heap
                   /\ \A k \in Calls : trace[k].id # e.id
        /\ \A i, j \in FiredNow :
              (i < j /\ {trace[i].id, trace[j].id} \subseteq {e.id : e \in sop.before})
                  => trace[i].time <= trace[j].time
        /\ \A e \in heap : e.time >= sop.bound

\* the tick began with an event below its bound and one at its bound
C17_Witness ==
    /\ sop.op = "tick" /\ ~sop.stopping
    /\ \E e, f \in sop.before : e.time < sop.bound /\ f.time = sop.bound

(***************************************************************************)
(* C18, as stated: each tick advances the scheduler's notion of now to the *)
(* greater of (the previous tick's time plus the resolution) and the clock *)
(* time, and that value is the bound below which the tick fires events.    *)
(* Stated for the ticks that drain the heap and have a previous tick.      *)
(***************************************************************************)
C18_GreaterOfPreviousAndClock ==
    (sop.op = "tick" /\ ~sop.stopping /\ sop.prev # Null) =>
        /\ time = Max(sop.prev + Resolution, sop.now)
        /\ sop.bound = time

(***************************************************************************)
(* C18, amended: each tick that is not a stopping tick sets this.time to   *)
(* the clock time it read plus the resolution, whatever the previous       *)
(* tick's time was, and that value is the bound below which it fires       *)
(* pending events; a stopping tick leaves this.time at the clock time.     *)
(***************************************************************************)
C18_ClockPlusResolution ==
    sop.op = "tick" =>
        IF sop.stopping
        THEN time = sop.now /\ FiredNow = {}
        ELSE /\ time = sop.now + Resolution
             /\ sop.bound = time
             /\ \A k \in FiredNow : trace[k].time < time
             /\ \A e \in heap : e.time >= time

\* a tick after an earlier tick, at a clock time where the two values differ,
\* that fired an event
C18_Witness ==
    /\ sop.op = "tick" /\ ~sop.stopping /\ sop.prev # Null
    /\ Max(sop.prev + Resolution, sop.now) # sop.now + Resolution
    /\ FiredNow # {}

(***************************************************************************)
(* C19: if a callback running inside a tick calls schedule with a time in  *)
(* the past, the new callback is invoked inside that schedule call, within *)
(* the same tick and before anything else happens, and is never queued.    *)
(***************************************************************************)
C19_NestedPastFiresInside ==
    \A a \in Asks :
        (trace[a].inTick /\ trace[a].late) =>
            /\ a + 1 \in SyncFired
            /\ trace[a + 1].id = trace[a].id
            /\ trace[a + 1].tick = trace[a].tick
            /\ trace[a + 1].inTick
            /\ \A p \in Pushes : trace[p].id # trace[a].id
            /\ trace[a].id \notin PendingIds

\* a callback fired by a tick asked for a past time, and a later tick ran
C19_Witness ==
    \E a \in Asks :
        /\ trace[a].inTick /\ trace[a].late
        /\ a - 1 \in TickFired
        /\ ticks > trace[a].tick

(***************************************************************************)
(* C20: each schedule call leads to at most one invocation of its          *)
(* callback: an event fired by a tick has left the heap before its         *)
(* callback runs and is never fired again, and a callback fired by         *)
(* schedule itself is never queued.                                        *)
(***************************************************************************)
C20_AtMostOnce ==
    /\ \A a \in Asks : Cardinality({k \in Calls : trace[k].id = trace[a].id}) <= 1
    /\ \A k \in TickFired : /\ trace[k].id \notin trace[k].pending
                            /\ trace[k].id \notin PendingIds
    /\ \A k \in SyncFired : /\ trace[k].id \notin PendingIds
                            /\ \A p \in Pushes : trace[p].id # trace[k].id

\* a callback fired by schedule and one fired by a tick, and a later tick
C20_Witness ==
    /\ \E k \in SyncFired : ticks > trace[k].tick
    /\ \E k \in TickFired : ticks > trace[k].tick

(***************************************************************************)
(* C21: within one dispatch call the handlers for the dispatched category  *)
(* are invoked in registration order, each command's handler at most once; *)
(* a restart never removes a command from the registry nor moves it.       *)
(***************************************************************************)
HookOrder == \A j, k \in HookCalls : j < k => log[j].cmd < log[k].cmd

RegistryKept ==
    /\ Len(commands') >= Len(commands)
    /\ \A i \in DOMAIN commands : commands'[i].proc = commands[i].proc

C21_RegistrationOrder == [][HookOrder' /\ RegistryKept]_vars

\* the first command's handler cancelled, the command was restarted, and
\* the second command's handler was still invoked
C21_Witness ==
    /\ op = "dispatch"
    /\ \E j, k \in HookCalls : \E r \in Restarts :
          j < r /\ r < k /\ log[r].cmd = log[j].cmd /\ log[j].control = "CANCEL"

(***************************************************************************)
(* C22: a command has no terminal state: when its procedure completes, the *)
(* then-callback starts it again from the top, and once the continuations  *)
(* have run every command is suspended on a listener whose promise is      *)
(* pending, the restarted one on the listener of its first listen call     *)
(* (or, where a listen call was given a promise of its listener, in the    *)
(* await of that promise).                                                 *)
(***************************************************************************)
\* the procedure of c is suspended in a listen call whose listener is
\* command.state, its promise pending
Suspended(c) == c.state.pc \in 1..Len(ProcBody(c.proc)) /\ ~c.state.resolved

\* the procedure of command i is suspended in the await of the promise that
\* the listen call of step pc was given, or its continuation is queued
Awaiting(cs, q, i, pc) ==
    \/ \E k \in DOMAIN cs[i].waits : cs[i].waits[k].pc = pc /\ ~cs[i].waits[k].stale
    \/ Queued(q, [type |-> "install", cmd |-> i, pc |-> pc, val |-> "none",
                  stale |-> FALSE, ticks |-> 0])

C22_Perpetual ==
    [][/\ op' = "microtask" =>
            LET job == NextJob
            IN  /\ (job.type = "resume" /\ job.pc = Len(ProcBody(commands[job.cmd].proc)))
                      => \E k \in DOMAIN microtasks' :
                            /\ microtasks'[k].type = "restart"
                            /\ microtasks'[k].cmd = job.cmd
                /\ job.type = "restart" =>
                      IF Promised(commands[job.cmd].proc, 1) = "none"
                      THEN commands'[job.cmd].state = FirstListen
                      ELSE Awaiting(commands', microtasks', job.cmd, 1)
       /\ microtasks' = <<>> =>
             \A i \in DOMAIN commands' :
                 Suspended(commands'[i]) \/ commands'[i].waits # <<>>
      ]_vars

\* a procedure has completed and its restart is the next continuation
C22_Witness ==
    /\ microtasks # <<>>
    /\ NextJob.type = "restart"
    /\ ~NextJob.stale

(***************************************************************************)
(* C23, as stated: when register returns, the procedure has run up to its  *)
(* first listen call, whose listener is the command's current listener,    *)
(* and the command is the last entry of the registry, behind the unchanged *)
(* earlier ones; in the very next dispatch its handler for the dispatched  *)
(* category is invoked unless an earlier command consumed.                 *)
(***************************************************************************)
C23_RegisterStarts ==
    [][/\ op' = "register" =>
            /\ Len(commands') = Len(commands) + 1
            /\ SubSeq(commands', 1, Len(commands)) = commands
            /\ commands'[Len(commands')].state = FirstListen
            /\ DOMAIN Listener(commands'[Len(commands')]).hooks # {}
       /\ (op = "register" /\ op' = "dispatch" /\ last'.hook # "action") =>
            LET n == Len(commands)
            IN  (/\ HasHook(commands[n], last'.hook)
                 /\ ~ \E k \in HookCalls' : log'[k].cmd < n /\ log'[k].control = "CONSUME")
                    => \E k \in HookCalls' : log'[k].cmd = n /\ log'[k].pc = 1
      ]_vars

\* a command registered behind another one, whose procedure is under way
C23_Witness ==
    /\ op = "register"
    /\ Len(commands) >= 2
    /\ commands[1].state.pc >= 2

(***************************************************************************)
(* C23, amended: when register returns the command is the last entry of    *)
(* the registry, behind the unchanged earlier ones, and its procedure has  *)
(* run up to its first suspension.  If the first listen call was given a   *)
(* listener, that is the command's current listener; if it was given a     *)
(* promise, the current listener is still empty, the procedure waits in    *)
(* the await of the promise, and the listener is installed by the          *)
(* continuation of that await.  In the next dispatch the command's handler *)
(* for the category, if it has one, is invoked unless an earlier command   *)
(* consumed.                                                               *)
(***************************************************************************)
C23_RegisterStartsOrAwaits ==
    [][/\ op' = "register" =>
            LET n == Len(commands')
            IN  /\ n = Len(commands) + 1
                /\ SubSeq(commands', 1, Len(commands)) = commands
                /\ IF Promised(commands'[n].proc, 1) = "none"
                   THEN /\ commands'[n].state = FirstListen
                        /\ DOMAIN Listener(commands'[n]).hooks # {}
                        /\ commands'[n].waits = <<>>
                        /\ microtasks' = <<>>
                   ELSE /\ commands'[n].state = EmptyState
                        /\ DOMAIN Listener(commands'[n]).hooks = {}
                        /\ Awaiting(commands', microtasks', n, 1)
       /\ (op' = "microtask" /\ NextJob.type = "install") =>
            LET job == NextJob
            IN  /\ commands'[job.cmd].state = Installed(job.pc, job.val, job.stale)
                /\ DOMAIN Listener(commands'[job.cmd]).hooks =
                      DOMAIN ProcBody(commands[job.cmd].proc)[job.pc].hooks
       /\ (op' = "dispatch" /\ last'.hook # "action") =>
            \A n \in DOMAIN commands :
               (/\ HasHook(commands[n], last'.hook)
                /\ ~ \E k \in HookCalls' : log'[k].cmd < n /\ log'[k].control = "CONSUME")
                   => \E k \in HookCalls' : log'[k].cmd = n
      ]_vars

\* register has returned for a procedure that gave its first listen call a
\* promise: the command is in the registry without a listener
C23_AwaitsWitness ==
    /\ op = "register"
    /\ Promised(commands[Len(commands)].proc, 1) # "none"
    /\ commands[Len(commands)].state = EmptyState
    /\ microtasks # <<>>

(***************************************************************************)
(* C24: dispatch('action') always fails with an error, in every registry   *)
(* state, invokes no handler and changes no listener.  Violated: the test  *)
(* sits inside the loop, behind 'hook in c.state'; when no command holds   *)
(* an action handler the call returns normally.                            *)
(***************************************************************************)
C24_DispatchActionFails ==
    (op = "dispatch" /\ last.hook = "action") =>
        /\ err # "none"
        /\ HookCalls \cup ActionCalls = {}
        /\ Restarts = {}

(***************************************************************************)
(* C26: every listen(L) replaces the command's current listener as a       *)
(* whole: the current listener has a handler for exactly the categories    *)
(* present in L, with L's handlers and L's action priority, and for no     *)
(* category of the previous listener; a dispatch invokes only handlers of  *)
(* the listener of the current listen call.                                *)
(***************************************************************************)
\* the listener of the listen call that wrote command.state last: the one
\* passed to it, or the one the promise passed to it was fulfilled with
Passed(c) == ProcBody(c.proc)[c.state.pc]

C26_ListenerReplacedWhole ==
    /\ \A i \in DOMAIN commands :
          IF commands[i].state.pc = 0
          THEN DOMAIN commands[i].listener.hooks = {}
          ELSE /\ DOMAIN commands[i].listener.hooks = DOMAIN Passed(commands[i]).hooks
               /\ \A n \in DOMAIN commands[i].listener.hooks :
                     commands[i].listener.hooks[n] = Passed(commands[i]).hooks[n]
               /\ "action" \in DOMAIN commands[i].listener.hooks =>
                     commands[i].listener.priority = Passed(commands[i]).priority
    /\ \A k \in HookCalls : last.hook \in DOMAIN ListenerAt(k).hooks
    /\ \A k \in ActionCalls : "action" \in DOMAIN ListenerAt(k).hooks

\* a command suspended in a later listen call whose listener lacks a
\* category the previous listener had, and has one it did not have
C26_Witness ==
    \E i \in DOMAIN commands :
        /\ commands[i].state.pc >= 2
        /\ \E n \in DOMAIN ProcBody(commands[i].proc)[commands[i].state.pc - 1].hooks :
              ~HasHook(commands[i], n)
        /\ HasHook(commands[i], "mouseUp")

(***************************************************************************)
(* C27, as stated: once a command's procedure has finished and until its   *)
(* restart has reached the first listen call, the command's current        *)
(* listener is empty.                                                      *)
(***************************************************************************)
RestartsQueued == {k \in DOMAIN microtasks : microtasks[k].type = "restart"}

C27_EmptyWhileRestarting ==
    \A k \in RestartsQueued : DOMAIN Listener(commands[microtasks[k].cmd]).hooks = {}

(***************************************************************************)
(* C27, amended: once a command's procedure has finished and until its     *)
(* restart has reached the first listen call, the command's state still    *)
(* holds the last listener of the finished run, its promise resolved; the  *)
(* restart is a continuation that runs before the next dispatch, so no     *)
(* dispatch arrives in that interval.                                      *)
(***************************************************************************)
C27_LastListenerUntilRestart ==
    [][\A k \in RestartsQueued :
          /\ op' = "microtask"
          /\ ~microtasks[k].stale =>
                /\ commands[microtasks[k].cmd].state.pc = microtasks[k].pc
                /\ commands[microtasks[k].cmd].state.resolved
      ]_vars

\* a finished procedure whose last listener, with handlers, is still held
C27_Witness ==
    \E k \in RestartsQueued :
        /\ ~microtasks[k].stale
        /\ DOMAIN Listener(commands[microtasks[k].cmd]).hooks # {}

(***************************************************************************)
(* C28: when a hook handler returns PROCEED the dispatch continues: every  *)
(* later-registered command with a handler for the category has it         *)
(* invoked, until some handler returns CONSUME, and unless a handler       *)
(* consumed, action resolution runs for that dispatch.                     *)
(***************************************************************************)
C28_ProceedContinues ==
    [][op' = "dispatch" =>
          \A k \in HookCalls' :
              log'[k].control = "PROCEED" =>
                  /\ \A j \in DOMAIN commands :
                        (/\ j > log'[k].cmd
                         /\ HasHook(commands[j], last'.hook)
                         /\ ~ \E m \in HookCalls' :
                                 log'[m].cmd < j /\ log'[m].control = "CONSUME")
                            => \E m \in HookCalls' : log'[m].cmd = j
                  /\ ~Consumed' => Resolutions' # {}
      ]_vars

\* a handler proceeded, a later command's handler ran, the actions were
\* resolved
C28_Witness ==
    /\ op = "dispatch"
    /\ \E k, m \in HookCalls : k < m /\ log[k].control = "PROCEED"
    /\ Resolutions # {}

(***************************************************************************)
(* C29: a handler that returns REPEAT changes nothing in the engine: the   *)
(* command keeps its current listener, its procedure is neither resumed    *)
(* nor restarted, and the dispatch goes on.  The command is compared over  *)
(* the dispatches in which this handler is all that happens to it.         *)
(***************************************************************************)
SameListener(c, d) ==
    /\ c.proc = d.proc
    /\ c.state.pc = d.state.pc
    /\ c.state.resolved = d.state.resolved
    /\ c.state.val = d.state.val
    /\ c.listener = d.listener

C29_RepeatChangesNothing ==
    [][op' = "dispatch" =>
          \A k \in HookCalls' \cup ActionCalls' :
              log'[k].control = "REPEAT" =>
                  LET i == log'[k].cmd
                  IN  /\ k \in HookCalls' =>
                            /\ k < Len(log')
                            /\ ~(log'[k + 1].ev = "restart" /\ log'[k + 1].cmd = i)
                      /\ (\A m \in DOMAIN log' : m # k => log'[m].cmd # i) =>
                            /\ SameListener(commands'[i], commands[i])
                            /\ \A m \in DOMAIN microtasks' : microtasks'[m].cmd # i
      ]_vars

\* a handler returned REPEAT in a dispatch that restarted another command
C29_Witness ==
    /\ op = "dispatch"
    /\ \E k \in HookCalls : \E r \in Restarts :
          /\ log[k].control = "REPEAT"
          /\ log[r].cmd # log[k].cmd
          /\ \A m \in DOMAIN log : m # k => log[m].cmd # log[k].cmd

(***************************************************************************)
(* C30: a dispatch of category c never invokes a handler of, and never     *)
(* changes the current listener of, a command whose current listener has   *)
(* neither a handler for c nor an action handler; nor does a register      *)
(* call: the command keeps waiting.                                        *)
(***************************************************************************)
C30_UninvolvedUntouched ==
    [][/\ op' = "dispatch" =>
            \A i \in DOMAIN commands :
                (~HasHook(commands[i], last'.hook) /\ ~HasHook(commands[i], "action")) =>
                    /\ commands'[i] = commands[i]
                    /\ \A m \in DOMAIN log' : log'[m].cmd # i
                    /\ \A m \in DOMAIN microtasks' : microtasks'[m].cmd # i
       /\ op' = "register" => \A i \in DOMAIN commands : commands'[i] = commands[i]
      ]_vars

\* a dispatch that invoked a handler of one command and resolved actions
\* while another command waited for a different category
C30_Witness ==
    /\ op = "dispatch"
    /\ HookCalls # {}
    /\ Resolutions # {}
    /\ \E i \in DOMAIN commands :
          /\ ~HasHook(commands[i], last.hook)
          /\ ~HasHook(commands[i], "action")
          /\ \A m \in DOMAIN log : log[m].cmd # i

(***************************************************************************)
(* C25: if a handler returns PROCEED or CONSUME while the listener it      *)
(* belongs to is no longer its command's current listener, because the     *)
(* command was restarted while the handler ran, dispatch fails with an     *)
(* 'Invariant error'.  Violated: the status carries this.command.state as  *)
(* read after the handler has run, so the comparison in dispatch is made   *)
(* between the command's state and itself, and dispatch goes on.           *)
(***************************************************************************)
Returns == {k \in DOMAIN log : log[k].ev = "return"}

\* the hook calls during which the command of the handler was restarted
Replaced ==
    {k \in HookCalls :
        \E t \in Returns : \E r \in Restarts :
            /\ k < r /\ r < t
            /\ log[t].cmd = log[k].cmd /\ log[r].cmd = log[k].cmd
            /\ ~ \E u \in Returns : k < u /\ u < t /\ log[u].cmd = log[k].cmd}

C25_StaleStatusFails ==
    (op = "dispatch" /\ \E k \in Replaced : log[k].control \in {"PROCEED", "CONSUME"})
        => err = "Invariant error"

(***************************************************************************)
(* C32, as stated: when the winning action handler returns PROCEED the     *)
(* command is left waiting on that same action listener; once the          *)
(* continuations have run it still holds it, its promise pending.          *)
(***************************************************************************)
Proceeded == {k \in ActionCalls : log[k].control = "PROCEED" /\ log[k].pending}

C32_ProceedKeepsListener ==
    (op = "microtask" /\ microtasks = <<>>) =>
        \A k \in Proceeded :
            /\ commands[log[k].cmd].state.pc = log[k].pc
            /\ ~commands[log[k].cmd].state.resolved

(***************************************************************************)
(* C32, amended: when the winning action handler returns PROCEED the       *)
(* promise of the command's listen call is resolved with the carried value *)
(* and the procedure is resumed: by the next dispatch the command waits on *)
(* the listener of its next listen call, or of its first one when the      *)
(* procedure completed.  When the handler returns CANCEL the command is    *)
(* restarted from the top.                                                 *)
(***************************************************************************)
C32_ProceedResumes ==
    /\ \A k \in Proceeded :
          LET i == log[k].cmd
          IN  /\ op = "dispatch" =>
                    Queued(microtasks,
                           [type |-> "resume", cmd |-> i, pc |-> log[k].pc,
                            val |-> log[k].value, stale |-> FALSE, ticks |-> 0])
              /\ (op = "microtask" /\ microtasks = <<>>) =>
                    commands[i].state =
                        IF log[k].pc < Len(ProcBody(commands[i].proc))
                        THEN ListenState(log[k].pc + 1, log[k].value)
                        ELSE FirstListen
    /\ \A k \in ActionCalls :
          (log[k].control = "CANCEL" /\ op = "dispatch") =>
              commands[log[k].cmd].state = FirstListen

\* the action handler of a procedure's last listen call returned PROCEED and
\* the continuations have run: the command is back at its first listener
C32_Witness ==
    /\ op = "microtask"
    /\ microtasks = <<>>
    /\ \E k \in Proceeded :
          /\ log[k].pc = Len(ProcBody(commands[log[k].cmd].proc))
          /\ ~HasHook(commands[log[k].cmd], "action")

(***************************************************************************)
(* C33: each command has at most one live activation of its procedure:     *)
(* once a command has been restarted, the abandoned activation never runs  *)
(* another step.  Violated: initState starts the procedure again without   *)
(* cancelling the run in progress, so a continuation queued by a PROCEED   *)
(* earlier in the same dispatch still runs, and its next listen call       *)
(* overwrites the listener the restart installed.                          *)
(***************************************************************************)
C33_OneLiveActivation == [][op' = "microtask" => ~NextJob.stale]_vars

(***************************************************************************)
(* C38: if the action handler chosen by action resolution returns CONSUME, *)
(* resolveActions fails with 'Actions may not consume' and the dispatch    *)
(* does not return normally; if it returns REPEAT the command keeps the    *)
(* listener it had, with the same priority, and contends again.            *)
(***************************************************************************)
C38_ActionsMayNotConsume ==
    op = "dispatch" =>
        \A k \in ActionCalls :
            /\ log[k].control = "CONSUME" => err = "Actions may not consume"
            /\ log[k].control = "REPEAT" =>
                  /\ err = "none"
                  /\ commands[log[k].cmd].state.pc = log[k].pc
                  /\ commands[log[k].cmd].state.resolved = ~log[k].pending
                  /\ Priority(commands[log[k].cmd]) = snap[log[k].cmd]
                  /\ \A j \in DOMAIN microtasks :
                        microtasks[j].cmd = log[k].cmd => ~log[k].pending

\* an action handler returned CONSUME
C38_Witness ==
    /\ op = "dispatch"
    /\ \E k \in ActionCalls : log[k].control = "CONSUME"

(***************************************************************************)
(* C31: the handler built by when(predicate, L) returns the wrapped        *)
(* handler's status s unchanged when s is PROCEED or CONSUME and the       *)
(* predicate holds on its carried value, and REPEAT in every other case;   *)
(* the wrapped listener has exactly the categories and the action priority *)
(* of L.                                                                   *)
(***************************************************************************)
C31_WhenGates ==
    /\ DOMAIN When(wHolds, wListener).hooks = DOMAIN wListener.hooks
    /\ When(wHolds, wListener).priority = wListener.priority
    /\ wAnswer # Unasked =>
          /\ wAnswer.hook \in DOMAIN wListener.hooks
          /\ wAnswer.answer =
                IF /\ wAnswer.status.control \in {"PROCEED", "CONSUME"}
                   /\ wAnswer.status.value \in wHolds
                THEN wAnswer.status
                ELSE [control |-> "REPEAT"]

\* a handler of the wrapped listener was called while the handler it wraps
\* cancelled, and the listener has an action handler and one for mouseUp
C31_Witness ==
    /\ wAnswer # Unasked
    /\ wAnswer.status.control = "CANCEL"
    /\ wAnswer.answer.control = "REPEAT"
    /\ {"action", "mouseUp"} \subseteq DOMAIN wListener.hooks

(***************************************************************************)
(* C35: for 'Create new note' and 'Select and move notes': after a         *)
(* pointer-up dispatch that no other command consumed, and once the        *)
(* continuations have run, the command is back waiting for a pointer-down, *)
(* whatever was dispatched between the pointer-down and the pointer-up.    *)
(* Violated when no dispatch resolved actions in between: the command is   *)
(* then still at its cx.action step, which has no mouseUp handler; the     *)
(* action resolution of the pointer-up dispatch itself moves it on to the  *)
(* drag stage, where it waits for a pointer-up that has been dispatched.   *)
(***************************************************************************)
PointerProcs == {"selectMove", "createNote"}

C35_BackAtPointerDown ==
    (/\ last.hook = "mouseUp"
     /\ op = "microtask"
     /\ microtasks = <<>>) =>
        \A i \in DOMAIN commands :
            (/\ commands[i].proc \in PointerProcs
             /\ \A k \in HookCalls : log[k].control = "CONSUME" => log[k].cmd = i)
                => commands[i].state.pc = 1

(***************************************************************************)
(* C36: while 'Select and move notes' is in its drag stage, every          *)
(* frame-tick dispatch invokes its move action, whatever keyDown           *)
(* dispatches of the simple key commands occurred.  Violated: a simple key *)
(* command that has taken its key waits on a priority-0 action too; the    *)
(* next action resolution sees a tie, invokes only the first-registered    *)
(* command's handler and restarts the other.                               *)
(***************************************************************************)
Dragging(i) ==
    /\ commands[i].proc = "selectMove"
    /\ commands[i].state.pc = Len(SelectMove)
    /\ ~commands[i].state.resolved

C36_DragMovesEveryFrame ==
    [][\A i \in DOMAIN commands :
          (/\ Dragging(i)
           /\ \A j \in DOMAIN commands : j # i => commands[j].proc = "simpleKey"
           /\ op' = "dispatch"
           /\ last'.hook = "draw")
              => \E k \in ActionCalls' : log'[k].cmd = i /\ log'[k].pc = Len(SelectMove)
      ]_vars

(***************************************************************************)
(* C34: if a command's procedure throws, the command no longer reacts to   *)
(* dispatches through the listener it was last suspended on: a dispatch    *)
(* invokes hook handlers only of listeners whose promise is pending.       *)
(* Violated: the command's state keeps the listener of the run that threw, *)
(* nothing restarts the command, and dispatch goes on invoking that        *)
(* listener's handlers, which can consume the event.                       *)
(***************************************************************************)
C34_ThrownCommandSilent ==
    op = "dispatch" => \A k \in HookCalls : log[k].pending

(***************************************************************************)
(* C37: if stop is never called, ticks keep occurring and the clock goes   *)
(* on, every event accepted by schedule is eventually invoked; an event    *)
(* with time T that is pending is invoked by the first tick at which the   *)
(* clock time plus the resolution exceeds T, and no tick fires an event    *)
(* whose time is a full resolution or more ahead of the clock time.        *)
(***************************************************************************)
Invoked(i) == \E k \in Calls : trace[k].id = i

C37_EveryEventFires ==
    /\ \A i \in 1..MaxIds : (i \in PendingIds) ~> Invoked(i)
    /\ [](sop.op = "tick" =>
            /\ \A e \in heap : e.time >= sop.now + Resolution
            /\ \A e \in sop.before :
                  /\ e.time < sop.now + Resolution => Invoked(e.id)
                  /\ e.time >= sop.now + Resolution =>
                        e \in heap /\ ~Invoked(e.id))

\* an event stayed in the heap over a tick that came too early for it and
\* was invoked by a later tick
C37_Witness ==
    \E k \in TickFired : \E p \in Pushes :
        /\ trace[p].id = trace[k].id
        /\ trace[p].tick + 2 <= trace[k].tick

\* C39: every channel 1..numChannels is in availableChannels exactly once or
\* is the channel of exactly one frequency of channelMap, never both and
\* never neither
Free(c) == {i \in DOMAIN availableChannels : availableChannels[i] = c}

Sounding(c) == {f \in DOMAIN channelMap : channelMap[f] = c}

C39_ChannelsAccounted ==
    \A c \in 1..numChannels :
        \/ Cardinality(Free(c)) = 1 /\ Sounding(c) = {}
        \/ Cardinality(Sounding(c)) = 1 /\ Free(c) = {}

\* what holds of the pool all the same: no channel is handed out twice
NoChannelTwice ==
    \A c \in 1..numChannels : Cardinality(Free(c)) + Cardinality(Sounding(c)) <= 1

C39_Started == mop = "startNote" /\ channelMap # <<>>

\* the notes of the Player at or after the playhead
Audible(p) == {n \in DOMAIN p.notes : p.notes[n].startTime >= p.playheadStart}

\* the entries of the history in which schedule is called for a callback
Asked(id) == {k \in DOMAIN trace : trace[k].ev = "schedule" /\ trace[k].id = id}

\* the entries of the history in which a callback is invoked
CalledAt(id) == {k \in DOMAIN trace : trace[k].ev = "call" /\ trace[k].id = id}

\* a note-on and a note-off are scheduled, once each, for exactly the notes
\* at or after the playhead
PlayerSchedulesAudible ==
    \A i \in DOMAIN player : \A n \in DOMAIN player[i].notes :
        /\ Cardinality(Asked(OnId(n))) = (IF n \in Audible(player[i]) THEN 1 ELSE 0)
        /\ Cardinality(Asked(OffId(n))) = (IF n \in Audible(player[i]) THEN 1 ELSE 0)

\* C40: the Player schedules a note-on and a note-off for exactly the notes
\* whose startTime is at or after playheadStart, and the note-on callback
\* of each of them that ends after it starts is invoked before its note-off
\* callback
C40_NoteOnBeforeNoteOff ==
    /\ PlayerSchedulesAudible
    /\ \A i \in DOMAIN player : \A n \in Audible(player[i]) :
          player[i].notes[n].endTime > player[i].notes[n].startTime =>
              \A k \in CalledAt(OffId(n)) : \E j \in CalledAt(OnId(n)) : j < k
====
